---- MODULE Spec2Model ----
(***************************************************************************)
(* Org compare: reconciliation of two metadata collections, positional     *)
(* line diff, dependency auto-wiring and package.xml generation.           *)
(*                                                                         *)
(* The repository holds three copies of the comparison code:               *)
(*   "OrgCompare"      the component (src/unnamed/part_000)                *)
(*   "MetadataService" the service class (services/metadataService.ts      *)
(*                     lines 22-413)                                       *)
(*   "Legacy"          the component copy kept in services/                *)
(*                     metadataService.ts from line 415 on                 *)
(* Objects are modelled by reference: items is the heap, collections are   *)
(* sequences of object identities.                                         *)
(***************************************************************************)
EXTENDS Integers, Sequences, FiniteSets, TLC

VARIABLES
  items,                \* heap: object identity -> MetadataItem
  sourceConfig,         \* this.sourceConfig
  targetConfig,         \* this.targetConfig
  sourceMetadata,       \* the source collection handed to compareMetadata
  targetMetadata,       \* the target collection handed to compareMetadata
  comparisonResult,     \* this.comparisonResult (undefined or Some(record))
  compareImpl,          \* which copy of compareMetadata produced comparisonResult
  error,                \* this.error
  pendingContent,       \* retrieveMetadataContent calls suspended at an await
  retrieveCommands,     \* "sf project retrieve start" commands handed to executeCommand
  availableOrgs,        \* this.availableOrgs
  filter,               \* this.filter
  currentFilter,        \* this.currentFilter
  filteredResult,       \* what the getter filteredComparisonResult returned
  selectAll,            \* this.selectAll
  isComparing,          \* this.isComparing
  clicks,               \* the invocations of handleCompareClick: position and locals
  selectedItems,        \* this.selectedItems
  itemsWithDependencies,\* result of autoWireDependencies in handleCreatePackage
  packageItems,         \* the list handed to generatePackageXml
  packageXml,           \* the serialized manifest
  selectedDiffItem,     \* this.selectedDiffItem
  diffViewerContent,    \* this.diffViewerContent (component)
  diffContent,          \* this.diffContent (legacy copy)
  sourceDiffLabel,      \* this.sourceDiffLabel
  targetDiffLabel       \* this.targetDiffLabel

vars == <<items, sourceConfig, targetConfig, sourceMetadata, targetMetadata,
          comparisonResult, compareImpl, error, pendingContent, retrieveCommands,
          isComparing, clicks, availableOrgs, filter, currentFilter,
          filteredResult, selectAll, selectedItems,
          itemsWithDependencies, packageItems, packageXml, selectedDiffItem,
          diffViewerContent, diffContent, sourceDiffLabel, targetDiffLabel>>

compareVars == <<items, sourceMetadata, targetMetadata, comparisonResult,
                 compareImpl, error, pendingContent, retrieveCommands>>
configVars == <<sourceConfig, targetConfig>>
clickVars == <<isComparing, clicks>>
uiVars == <<availableOrgs, filter, currentFilter, filteredResult, selectAll>>
wireVars == <<selectedItems, itemsWithDependencies>>
packageVars == <<packageItems, packageXml>>
diffVars == <<selectedDiffItem, diffViewerContent, diffContent, sourceDiffLabel,
              targetDiffLabel>>

----------------------------------------------------------------------------
(* Bounds of the model *)

MaxItems == 2

MaxClicks == 1

----------------------------------------------------------------------------
(* Values *)

\* An optional value: undefined is the empty sequence, a defined value v is <<v>>.
undefined == <<>>

Some(v) == <<v>>

\* A string is a sequence of characters; "\n" is the newline character.
Str(s) == Some(s)

\* x || '' for an optional string x (undefined and '' are both falsy)
OrEmpty(x) == IF x = undefined THEN <<>> ELSE x[1]

SeqsUpTo(S, n) == UNION {[1..k -> S] : k \in 0..n}

Range(s) == {s[i] : i \in 1..Len(s)}

\* this.filter as the class initialises it
DefaultFilter ==
  [metadataTypes |-> <<>>, status |-> <<"added", "removed", "changed">>,
   searchTerm |-> <<>>]

----------------------------------------------------------------------------
(* An invocation of handleCompareClick *)

Clicks == 1..MaxClicks

\* pc is the await the invocation is suspended at ("idle" before the call,
\* "done" after its return); the other fields are the locals of the
\* invocation and of the retrieval it is in. fetched and compared record what
\* the invocation has done so far.
IdleClick ==
  [pc |-> "idle", side |-> "source", batch |-> 0, outstanding |-> {},
   results |-> <<>>, allMetadata |-> <<>>, sourceMetadata |-> <<>>,
   targetMetadata |-> <<>>, fetched |-> {}, compared |-> FALSE]

----------------------------------------------------------------------------
(* MetadataItem *)

NewItem(type, name, fullName, date, content) ==
  [type |-> type, name |-> name, fullName |-> fullName,
   lastModifiedDate |-> date, sourceValue |-> content,
   targetValue |-> undefined, diff |-> undefined,
   status |-> "unchanged", selected |-> FALSE]

\* The collections compareMetadata is applied to: key, content and date vary
\* independently enough to give equal and different content with equal and
\* different dates, absent content, equal keys within one side, and an
\* artifact that is selected.
CompareKinds ==
  { NewItem("ApexClass", <<"K", "1">>, <<"K", "1">>, "d1", Str(<<"x">>)),
    NewItem("ApexClass", <<"K", "1">>, <<"K", "1">>, "d1", Str(<<"y">>)),
    NewItem("ApexClass", <<"K", "1">>, <<"K", "1">>, "d2", Str(<<"x">>)),
    NewItem("ApexClass", <<"K", "1">>, <<"K", "1">>, "d1", undefined),
    [NewItem("ApexClass", <<"K", "2">>, <<"K", "2">>, "d1", Str(<<"x">>))
       EXCEPT !.selected = TRUE],
    NewItem("ApexClass", <<"K", "2">>, <<"K", "2">>, "d2", undefined) }

SourceTargetConfig(type, orgAlias, gitBranch) ==
  [type |-> type, orgAlias |-> orgAlias, gitBranch |-> gitBranch]

----------------------------------------------------------------------------
(* compareMetadata *)

\* new Map built by list.forEach(item => map.set(item.fullName, item))
MapHas(h, list, key) == \E i \in 1..Len(list) : h[list[i]].fullName = key

\* Map.get: a later set of the same key replaced the earlier value
MapGet(h, list, key) ==
  LET hits == {i \in 1..Len(list) : h[list[i]].fullName = key}
  IN  list[CHOOSE i \in hits : \A j \in hits : j <= i]

\* Iteration order of the Map: keys in order of first insertion, each with the
\* value set last.
MapValues(h, list) ==
  LET IsFirst(i) == \A j \in 1..(i - 1) : h[list[j]].fullName # h[list[i]].fullName
      firsts == SelectSeq([i \in 1..Len(list) |-> i], IsFirst)
  IN  [n \in 1..Len(firsts) |-> MapGet(h, list, h[list[firsts[n]]].fullName)]

hasChangesOrgCompare(source, target) == source.sourceValue # target.sourceValue

hasChangesMetadataService(sourceItem, targetItem) ==
  sourceItem.lastModifiedDate # targetItem.lastModifiedDate

hasChanges(impl, source, target) ==
  IF impl = "MetadataService"
  THEN hasChangesMetadataService(source, target)
  ELSE hasChangesOrgCompare(source, target)

generateDiff(sourceValue, targetValue) ==
  IF OrEmpty(sourceValue) = <<>> \/ OrEmpty(targetValue) = <<>>
  THEN Str("Content not available for comparison")
  ELSE IF sourceValue = targetValue THEN Str("No changes")
  ELSE Str("Content has changed")

\* The four partitions, as the component and the service class build them:
\* three passes over the input arrays.
addedOf(h, source, target) ==
  LET Test(id) == ~MapHas(h, target, h[id].fullName)
  IN  SelectSeq(source, Test)

\* A mutant of removedOf: the third pass keeps every target item.
removedOfUntested(h, source, target) == target

removedOf(h, source, target) ==
  LET Test(id) == ~MapHas(h, source, h[id].fullName)
  IN  SelectSeq(target, Test)

changedOf(impl, h, source, target) ==
  LET Test(id) == /\ MapHas(h, target, h[id].fullName)
                  /\ hasChanges(impl, h[id], h[MapGet(h, target, h[id].fullName)])
  IN  SelectSeq(source, Test)

unchangedOf(impl, h, source, target) ==
  LET Test(id) == /\ MapHas(h, target, h[id].fullName)
                  /\ ~hasChanges(impl, h[id], h[MapGet(h, target, h[id].fullName)])
  IN  SelectSeq(source, Test)

\* The legacy copy walks the two Maps instead of the arrays.
partitionsOf(impl, h, source, target) ==
  LET src == IF impl = "Legacy" THEN MapValues(h, source) ELSE source
      tgt == IF impl = "Legacy" THEN MapValues(h, target) ELSE target
  IN  [added |-> addedOf(h, src, target),
       removed |-> removedOf(h, source, tgt),
       changed |-> changedOf(impl, h, src, target),
       unchanged |-> unchangedOf(impl, h, src, target)]

\* A mutant of withStatus: the assignment also clears the selection.
withStatusDeselected(item, status) ==
  [item EXCEPT !.status = status, !.selected = FALSE]

\* item.status = status
withStatus(item, status) == [item EXCEPT !.status = status]

\* The heap after the call: status is written in place; the legacy copy also
\* copies the target's content into targetValue and sets diff.
heapAfterCompare(impl, h, source, target) ==
  LET p == partitionsOf(impl, h, source, target)
      Mark(id) ==
        IF id \in Range(p.changed) THEN
          IF impl = "Legacy"
          THEN LET t == h[MapGet(h, target, h[id].fullName)]
               IN  [withStatus(h[id], "changed") EXCEPT
                     !.targetValue = t.sourceValue,
                     !.diff = generateDiff(h[id].sourceValue, t.sourceValue)]
          ELSE withStatus(h[id], "changed")
        ELSE IF id \in Range(p.unchanged) THEN withStatus(h[id], "unchanged")
        ELSE IF id \in Range(p.removed) THEN withStatus(h[id], "removed")
        ELSE IF id \in Range(p.added) THEN withStatus(h[id], "added")
        ELSE h[id]
  IN  [id \in DOMAIN h |-> Mark(id)]

\* retrieveMetadataContent(sourceItem, targetItem) up to its first await: the
\* stage it is suspended in, or "done" when no side is an org with an alias.
isOrgWithAlias(config) == config.type = "org" /\ OrEmpty(config.orgAlias) # <<>>

contentStage(sc, tc) ==
  IF isOrgWithAlias(sc) THEN "source"
  ELSE IF isOrgWithAlias(tc) THEN "target"
  ELSE "done"

\* The command retrieveMetadataContentFromOrg hands to executeCommand before
\* its first await
retrieveCommand(orgAlias, item) ==
  [targetOrg |-> orgAlias, metadata |-> <<item.type, item.name>>]

\* The command a retrieveMetadataContent call has started when it is suspended
\* in a stage
commandOf(h, p, sc, tc) ==
  IF p.stage = "source"
  THEN retrieveCommand(OrEmpty(sc.orgAlias), h[p.sourceItem])
  ELSE retrieveCommand(OrEmpty(tc.orgAlias), h[p.targetItem])

\* Only the component starts a content retrieval for each changed item.
startedRetrievals(impl, h, source, target, sc, tc) ==
  IF impl = "OrgCompare" /\ contentStage(sc, tc) # "done"
  THEN LET p == partitionsOf(impl, h, source, target)
       IN  { [sourceItem |-> id,
              targetItem |-> MapGet(h, target, h[id].fullName),
              stage |-> contentStage(sc, tc)] : id \in Range(p.changed) }
  ELSE {}

compareMetadata(impl) ==
  /\ comparisonResult = undefined
  /\ compareImpl = "none"
  /\ comparisonResult' =
       Some(partitionsOf(impl, items, sourceMetadata, targetMetadata))
  /\ items' = heapAfterCompare(impl, items, sourceMetadata, targetMetadata)
  /\ pendingContent' = startedRetrievals(impl, items, sourceMetadata,
                                         targetMetadata, sourceConfig, targetConfig)
  /\ retrieveCommands' =
       retrieveCommands \cup
         { commandOf(items, p, sourceConfig, targetConfig) :
             p \in startedRetrievals(impl, items, sourceMetadata, targetMetadata,
                                     sourceConfig, targetConfig) }
  /\ compareImpl' = impl
  /\ UNCHANGED <<sourceMetadata, targetMetadata, error>>
  /\ UNCHANGED <<configVars, uiVars, clickVars, wireVars, packageVars, diffVars>>

compareMetadataOrgCompare == compareMetadata("OrgCompare")

compareMetadataService == compareMetadata("MetadataService")

compareMetadataLegacy == compareMetadata("Legacy")

\* What retrieveMetadataContentFromOrg can return: always a string.
RetrievedContents == {Str(<<"x">>), Str(<<"r">>)}

\* A suspended retrieveMetadataContent resumes after its await.
retrieveMetadataContentResume ==
  \E p \in pendingContent, content \in RetrievedContents :
    /\ IF p.stage = "source"
       THEN /\ items' = [items EXCEPT ![p.sourceItem].sourceValue = content]
            /\ pendingContent' =
                 IF isOrgWithAlias(targetConfig)
                 THEN (pendingContent \ {p}) \cup {[p EXCEPT !.stage = "target"]}
                 ELSE pendingContent \ {p}
            /\ retrieveCommands' =
                 IF isOrgWithAlias(targetConfig)
                 THEN retrieveCommands \cup
                        {commandOf(items, [p EXCEPT !.stage = "target"],
                                   sourceConfig, targetConfig)}
                 ELSE retrieveCommands
       ELSE /\ items' = [items EXCEPT ![p.targetItem].targetValue = content]
            /\ pendingContent' = pendingContent \ {p}
            /\ UNCHANGED retrieveCommands
    /\ UNCHANGED <<sourceMetadata, targetMetadata, comparisonResult, compareImpl, error>>
    /\ UNCHANGED <<configVars, uiVars, clickVars, wireVars, packageVars, diffVars>>

----------------------------------------------------------------------------
(* Specification of the comparison: any two collections, any copy of the code *)

SourceIds(n) == {"s"} \X (1..n)

TargetIds(n) == {"t"} \X (1..n)

InitCompareOver(kinds, n) ==
  \E src \in SeqsUpTo(kinds, n), tgt \in SeqsUpTo(kinds, n) :
    /\ items = [id \in SourceIds(Len(src)) \cup TargetIds(Len(tgt)) |->
                  IF id[1] = "s" THEN src[id[2]] ELSE tgt[id[2]]]
    /\ sourceMetadata = [i \in 1..Len(src) |-> <<"s", i>>]
    /\ targetMetadata = [i \in 1..Len(tgt) |-> <<"t", i>>]
    /\ sourceConfig = SourceTargetConfig("org", Str(<<"dev-org">>), undefined)
    /\ targetConfig = SourceTargetConfig("org", Str(<<"prod-org">>), undefined)
    /\ comparisonResult = undefined
    /\ compareImpl = "none"
    /\ error = undefined
    /\ pendingContent = {}
    /\ retrieveCommands = {}
    /\ isComparing = FALSE
    /\ clicks = [c \in Clicks |-> IdleClick]
    /\ availableOrgs = <<>>
    /\ filter = DefaultFilter
    /\ currentFilter = "all"
    /\ filteredResult = undefined
    /\ selectAll = FALSE
    /\ selectedItems = <<>>
    /\ itemsWithDependencies = undefined
    /\ packageItems = <<>>
    /\ packageXml = undefined
    /\ selectedDiffItem = undefined
    /\ diffViewerContent = undefined
    /\ diffContent = undefined
    /\ sourceDiffLabel = <<"Source Org">>
    /\ targetDiffLabel = <<"Target Org">>

InitCompare == InitCompareOver(CompareKinds, MaxItems)

NextCompare ==
  \/ compareMetadataOrgCompare
  \/ compareMetadataService
  \/ compareMetadataLegacy
  \/ retrieveMetadataContentResume

SpecCompare == InitCompare /\ [][NextCompare]_vars

\* Longer collections over fewer kinds of artifact, for the order of the
\* partitions
MaxOrdered == 3

OrderKinds ==
  { NewItem("ApexClass", <<"K", "1">>, <<"K", "1">>, "d1", Str(<<"x">>)),
    NewItem("ApexClass", <<"K", "1">>, <<"K", "1">>, "d1", Str(<<"y">>)),
    NewItem("ApexClass", <<"K", "2">>, <<"K", "2">>, "d1", Str(<<"x">>)) }

InitOrder == InitCompareOver(OrderKinds, MaxOrdered)

SpecOrder == InitOrder /\ [][NextCompare]_vars

----------------------------------------------------------------------------
(* Properties of the comparison *)

Compared == comparisonResult # undefined

Result == comparisonResult[1]

PartitionNames == {"added", "removed", "changed", "unchanged"}

KeysOf(h, list) == {h[id].fullName : id \in Range(list)}

HasDuplicateKey(h, list) ==
  \E i, j \in 1..Len(list) : i < j /\ h[list[i]].fullName = h[list[j]].fullName

\* C1: every key of source or target is in exactly one partition, no object is
\* in two partitions, and the partition sizes add up to the number of distinct
\* keys of the two collections.
C1_PartitionExact ==
  Compared =>
    LET keys == KeysOf(items, sourceMetadata) \cup KeysOf(items, targetMetadata)
    IN  /\ \A k \in keys :
             Cardinality({p \in PartitionNames : k \in KeysOf(items, Result[p])}) = 1
        /\ \A p, q \in PartitionNames :
             p # q => Range(Result[p]) \cap Range(Result[q]) = {}
        /\ Len(Result.added) + Len(Result.removed) + Len(Result.changed)
             + Len(Result.unchanged) = Cardinality(keys)

\* C2: a call on a collection that holds one key twice fails with a
\* DuplicateKeyError that reaches the caller, and yields no partition.
C2_DuplicateKeyError ==
  (/\ compareImpl # "none"
   /\ \/ HasDuplicateKey(items, sourceMetadata)
      \/ HasDuplicateKey(items, targetMetadata))
  => /\ comparisonResult = undefined
     /\ error # undefined

\* C3: at the call, a key present in both collections (each holding it once)
\* goes to changed exactly when the content of the source artifact differs
\* from the content of the target artifact, and to unchanged otherwise.
C3_ChangedIffContentDiffers ==
  [][ (/\ comparisonResult = undefined
       /\ comparisonResult' # undefined
       /\ ~HasDuplicateKey(items, sourceMetadata)
       /\ ~HasDuplicateKey(items, targetMetadata))
      => \A id \in Range(sourceMetadata) :
           MapHas(items, targetMetadata, items[id].fullName) =>
             LET t == items[MapGet(items, targetMetadata, items[id].fullName)]
                 differs == items[id].sourceValue # t.sourceValue
             IN  /\ (id \in Range(comparisonResult'[1].changed)) <=> differs
                 /\ (id \in Range(comparisonResult'[1].unchanged)) <=> ~differs
    ]_vars

\* C4: the keys of removed are the keys that the call with the two collections
\* exchanged puts in added.
C4_RemovedIsAddedOfSwap ==
  Compared =>
    KeysOf(items, Result.removed) =
      KeysOf(items, partitionsOf(compareImpl, items, targetMetadata, sourceMetadata).added)

C4_Witness ==
  /\ Compared
  /\ Result.removed # <<>>
  /\ Result.added # <<>>
  /\ HasDuplicateKey(items, targetMetadata)

\* C12: no step of the comparison, in the call or after it, starts an external
\* command or writes a field of an artifact other than its classification.
C12_NoIO ==
  [][ /\ retrieveCommands' = retrieveCommands
      /\ \A id \in DOMAIN items :
           [items'[id] EXCEPT !.status = items[id].status] = items[id]
    ]_vars

\* C19: a call of compareMetadata leaves the selected flag of every source
\* and target artifact as it was.
C19_SelectedKept ==
  [][ comparisonResult = undefined /\ comparisonResult' # undefined
        => \A id \in DOMAIN items : items'[id].selected = items[id].selected
    ]_vars

C19_Witness ==
  /\ Compared
  /\ \E id \in Range(Result.changed) :
       items[id].selected /\ items[id].status = "changed"

\* The position of an artifact in a collection
indexOf(list, id) == CHOOSE i \in 1..Len(list) : list[i] = id

\* A partition is in the order of an input collection
inOrderOf(part, list) ==
  /\ Range(part) \subseteq Range(list)
  /\ \A i, j \in 1..Len(part) :
       i < j => indexOf(list, part[i]) < indexOf(list, part[j])

----------------------------------------------------------------------------
(* METADATA_TYPES and autoWireDependencies *)

TypeConfig(type, autoWire) == [type |-> type, autoWire |-> autoWire]

\* autoWire: null in the table is "null"
METADATA_TYPES ==
  << TypeConfig("ApexClass", "apexMeta"),
     TypeConfig("ApexTrigger", "apexMeta"),
     TypeConfig("ApexPage", "apexMeta"),
     TypeConfig("ApexComponent", "apexMeta"),
     TypeConfig("CustomObject", "objectFields"),
     TypeConfig("CustomField", "fieldParentObject"),
     TypeConfig("Layout", "objectLayouts"),
     TypeConfig("LightningComponentBundle", "lwcFolder"),
     TypeConfig("Profile", "null"),
     TypeConfig("PermissionSet", "null") >>

\* A mutant of autoWireOf: a type without entry, or with autoWire null, is
\* wired like a CustomObject.
autoWireOfObjectByDefault(type) ==
  LET hits == {i \in 1..Len(METADATA_TYPES) : METADATA_TYPES[i].type = type}
  IN  IF hits = {} THEN "objectFields"
      ELSE LET first == CHOOSE i \in hits : \A j \in hits : i <= j
           IN  IF METADATA_TYPES[first].autoWire = "null" THEN "objectFields"
               ELSE METADATA_TYPES[first].autoWire

\* METADATA_TYPES.find(t => t.type === item.type), then typeConfig.autoWire;
\* "none" when there is no entry or the entry's autoWire is null
autoWireOf(type) ==
  LET hits == {i \in 1..Len(METADATA_TYPES) : METADATA_TYPES[i].type = type}
  IN  IF hits = {} THEN "none"
      ELSE LET first == CHOOSE i \in hits : \A j \in hits : i <= j
           IN  IF METADATA_TYPES[first].autoWire = "null" THEN "none"
               ELSE METADATA_TYPES[first].autoWire

\* String.prototype.startsWith
startsWith(s, prefix) ==
  Len(prefix) <= Len(s) /\ SubSeq(s, 1, Len(prefix)) = prefix

\* s.split('.'): whether it has more than one part, and its first part
hasDot(s) == \E i \in 1..Len(s) : s[i] = "."

\* A mutant of firstPart: the part before the last '.'.
firstPartToLastDot(s) ==
  LET dots == {i \in 1..Len(s) : s[i] = "."}
      last == CHOOSE i \in dots : \A j \in dots : i >= j
  IN  SubSeq(s, 1, last - 1)

firstPart(s) ==
  LET dots == {i \in 1..Len(s) : s[i] = "."}
      first == CHOOSE i \in dots : \A j \in dots : i <= j
  IN  SubSeq(s, 1, first - 1)

metaSuffix == <<"-", "m", "e", "t", "a">>

\* A mutant of allItems: the unchanged partition is left out.
allItemsWithoutUnchanged(cr) == cr.added \o cr.removed \o cr.changed

\* [...added, ...removed, ...changed, ...unchanged]
allItems(cr) == cr.added \o cr.removed \o cr.changed \o cr.unchanged

\* Array.prototype.find, given the elements that pass the test in array order:
\* a sequence of at most one element
findFirst(hits) == IF hits = <<>> THEN <<>> ELSE <<Head(hits)>>

\* The items one selected item pulls in, in the order they are added
relatedItems(h, cr, id) ==
  IF cr = undefined THEN <<>>
  ELSE
    LET all == allItems(cr[1])
        item == h[id]
        kind == autoWireOf(item.type)
        IsLwcFile(i) == /\ h[i].type = "LightningComponentBundle"
                        /\ startsWith(h[i].name, item.name \o <<"/">>)
        IsMeta(i) == /\ h[i].type = item.type
                     /\ h[i].name = item.name \o metaSuffix
        IsObjectPart(i) == /\ h[i].type \in {"CustomField", "Layout"}
                           /\ startsWith(h[i].name, item.name \o <<".">>)
        IsParent(i) == /\ h[i].type = "CustomObject"
                       /\ h[i].name = firstPart(item.name)
    IN  CASE kind = "lwcFolder" -> SelectSeq(all, IsLwcFile)
          [] kind = "apexMeta" -> findFirst(SelectSeq(all, IsMeta))
          [] kind = "objectFields" -> SelectSeq(all, IsObjectPart)
          [] kind = "fieldParentObject" ->
               IF hasDot(item.name) THEN findFirst(SelectSeq(all, IsParent)) ELSE <<>>
          [] OTHER -> <<>>

\* Set.prototype.add on an insertion-ordered Set of object references
RECURSIVE setAddAll(_, _)
setAddAll(set, list) ==
  IF list = <<>> THEN set
  ELSE setAddAll(IF Head(list) \in Range(set) THEN set ELSE Append(set, Head(list)),
                 Tail(list))

\* One pass of selectedItems.forEach over the growing Set
RECURSIVE autoWireInto(_, _, _, _)
autoWireInto(set, h, cr, selected) ==
  IF selected = <<>> THEN set
  ELSE autoWireInto(
         setAddAll(setAddAll(set, <<Head(selected)>>), relatedItems(h, cr, Head(selected))),
         h, cr, Tail(selected))

\* A mutant of autoWireDependencies: the first member of the Set is lost.
autoWireDependenciesTail(h, cr, selected) == Tail(autoWireInto(<<>>, h, cr, selected))

\* Array.from(autoWiredItems)
autoWireDependencies(h, cr, selected) == autoWireInto(<<>>, h, cr, selected)

----------------------------------------------------------------------------
(* generatePackageXml *)

\* One line of the serialized manifest: its markup, and the member name it
\* interpolates (empty for a line without a member name).
Line(tag, text, name) == [tag |-> tag, text |-> text, name |-> name]

\* A mutant of typesOf: one key per item, a repeated type included.
typesOfEveryItem(h, list) == [n \in 1..Len(list) |-> h[list[n]].type]

\* Keys of the Map<string, string[]> in insertion order
typesOf(h, list) ==
  LET IsFirst(i) == \A j \in 1..(i - 1) : h[list[j]].type # h[list[i]].type
      firsts == SelectSeq([i \in 1..Len(list) |-> i], IsFirst)
  IN  [n \in 1..Len(firsts) |-> h[list[firsts[n]]].type]

\* A mutant of namesOf: the loop over the items starts one item late.
namesOfFromSecond(h, list, type) ==
  LET idx == SelectSeq([i \in 1..Len(list) |-> i],
                       LAMBDA i : i > 1 /\ h[list[i]].type = type)
  IN  [n \in 1..Len(idx) |-> h[list[idx[n]]].name]

\* metadataTypes.get(type): every push of a name of that type, in input order
namesOf(h, list, type) ==
  LET idx == SelectSeq([i \in 1..Len(list) |-> i], LAMBDA i : h[list[i]].type = type)
  IN  [n \in 1..Len(idx) |-> h[list[idx[n]]].name]

typesBlock(h, list, type) ==
  LET names == namesOf(h, list, type)
  IN  <<Line("open", "  <types>", <<>>)>>
      \o [n \in 1..Len(names) |-> Line("members", "    <members></members>", names[n])]
      \o <<Line("name", type, <<>>), Line("close", "  </types>", <<>>)>>

RECURSIVE typesBlocks(_, _, _)
typesBlocks(h, list, types) ==
  IF types = <<>> THEN <<>>
  ELSE typesBlock(h, list, Head(types)) \o typesBlocks(h, list, Tail(types))

generatePackageXml(h, list) ==
  <<Line("xml", "<?xml version=\"1.0\" encoding=\"UTF-8\"?>", <<>>),
    Line("Package", "<Package xmlns=\"http://soap.sforce.com/2006/04/metadata\">", <<>>)>>
  \o typesBlocks(h, list, typesOf(h, list))
  \o <<Line("version", "  <version>58.0</version>", <<>>),
       Line("end", "</Package>", <<>>)>>

\* createPackageZip: the call of generatePackageXml on its argument
createPackageZip ==
  /\ packageXml = undefined
  /\ packageXml' = Some(generatePackageXml(items, packageItems))
  /\ UNCHANGED <<packageItems, compareVars, configVars, uiVars, clickVars, wireVars, diffVars>>

\* handleCreatePackage: autoWireDependencies on the selection, then
\* createPackageZip on its result
handleCreatePackage ==
  /\ selectedItems # <<>>
  /\ itemsWithDependencies = undefined
  /\ LET wired == autoWireDependencies(items, comparisonResult, selectedItems)
     IN  /\ itemsWithDependencies' = Some(wired)
         /\ packageItems' = wired
         /\ packageXml' = Some(generatePackageXml(items, wired))
  /\ UNCHANGED <<selectedItems, compareVars, configVars, uiVars, clickVars, diffVars>>

----------------------------------------------------------------------------
(* Specification of auto-wiring: any comparison result over a catalogue of  *)
(* artifacts, any selection                                                 *)

MaxUniverse == 3

MaxSelected == 2

WireItem(type, name, status) ==
  [NewItem(type, name, name, "d1", undefined) EXCEPT !.status = status]

WireCatalogue ==
  << WireItem("CustomField", <<"A", ".", "P">>, "added"),
     WireItem("CustomField", <<"A", ".", "F", ".", "g">>, "unchanged"),
     WireItem("CustomObject", <<"A">>, "changed"),
     WireItem("Layout", <<"A", ".", "L">>, "removed"),
     WireItem("CustomField", <<"Q">>, "added"),
     WireItem("ApexClass", <<"X">>, "changed"),
     WireItem("ApexClass", <<"X">> \o metaSuffix, "unchanged"),
     WireItem("LightningComponentBundle", <<"c">>, "added"),
     WireItem("Flow", <<"A">>, "added"),
     WireItem("Profile", <<"A">>, "changed") >>

WireIds == 1..Len(WireCatalogue)

\* The sequence of the members of a set of integers in increasing order
RECURSIVE sorted(_)
sorted(S) ==
  IF S = {} THEN <<>>
  ELSE LET m == CHOOSE x \in S : \A y \in S : x <= y
       IN  <<m>> \o sorted(S \ {m})

ResultOver(U) ==
  [added |-> sorted({i \in U : WireCatalogue[i].status = "added"}),
   removed |-> sorted({i \in U : WireCatalogue[i].status = "removed"}),
   changed |-> sorted({i \in U : WireCatalogue[i].status = "changed"}),
   unchanged |-> sorted({i \in U : WireCatalogue[i].status = "unchanged"})]

InitWire ==
  /\ items = [i \in WireIds |-> WireCatalogue[i]]
  /\ \/ comparisonResult = undefined
     \/ \E U \in SUBSET WireIds :
          /\ Cardinality(U) <= MaxUniverse
          /\ comparisonResult = Some(ResultOver(U))
  /\ selectedItems \in SeqsUpTo(WireIds, MaxSelected)
  /\ sourceMetadata = <<>>
  /\ targetMetadata = <<>>
  /\ sourceConfig = SourceTargetConfig("org", Str(<<"dev-org">>), undefined)
  /\ targetConfig = SourceTargetConfig("org", Str(<<"prod-org">>), undefined)
  /\ compareImpl = "none"
  /\ error = undefined
  /\ pendingContent = {}
  /\ retrieveCommands = {}
  /\ isComparing = FALSE
  /\ clicks = [c \in Clicks |-> IdleClick]
  /\ availableOrgs = <<>>
  /\ filter = DefaultFilter
  /\ currentFilter = "all"
  /\ filteredResult = undefined
  /\ selectAll = FALSE
  /\ itemsWithDependencies = undefined
  /\ packageItems = <<>>
  /\ packageXml = undefined
  /\ selectedDiffItem = undefined
  /\ diffViewerContent = undefined
  /\ diffContent = undefined
  /\ sourceDiffLabel = <<"Source Org">>
  /\ targetDiffLabel = <<"Target Org">>

NextWire == handleCreatePackage

SpecWire == InitWire /\ [][NextWire]_vars

----------------------------------------------------------------------------
(* Properties of auto-wiring *)

Wired == itemsWithDependencies # undefined

\* C5: running autoWireDependencies on its own result returns that result.
C5_AutoWireIdempotent ==
  Wired =>
    autoWireDependencies(items, comparisonResult, itemsWithDependencies[1])
      = itemsWithDependencies[1]

\* C6: every selected artifact is in the result of autoWireDependencies.
C6_SelectionKept ==
  Wired => Range(selectedItems) \subseteq Range(itemsWithDependencies[1])

C6_Witness ==
  /\ Wired
  /\ Cardinality(Range(selectedItems)) = 2
  /\ Range(itemsWithDependencies[1]) # Range(selectedItems)

\* The members of a sequence in the order of their first occurrence
distinctOf(list) == setAddAll(<<>>, list)

\* C15: the result of autoWireDependencies has no duplicates and starts with
\* the selected items in selection order; the discovered artifacts follow.
C15_SelectedThenDiscovered ==
  Wired =>
    LET result == itemsWithDependencies[1]
        seed == distinctOf(selectedItems)
    IN  /\ \A i, j \in 1..Len(result) : result[i] = result[j] => i = j
        /\ Len(seed) <= Len(result)
        /\ SubSeq(result, 1, Len(seed)) = seed

\* The artifacts of the comparison result (none before a comparison)
Universe ==
  IF comparisonResult = undefined THEN {}
  ELSE UNION {Range(comparisonResult[1][p]) : p \in PartitionNames}

\* How often an artifact occurs in a list
occurrences(list, id) == Cardinality({i \in 1..Len(list) : list[i] = id})

\* The part of a name before its first '.', read off the name position by
\* position
beforeFirstDot(name, prefix) ==
  /\ Len(prefix) < Len(name)
  /\ name[Len(prefix) + 1] = "."
  /\ \A i \in 1..Len(prefix) : name[i] = prefix[i] /\ name[i] # "."

\* C16: a selected CustomField whose name has a '.' brings in, exactly once,
\* the CustomObject of the comparison result named by the part before the
\* first '.'; a selected CustomField without '.' brings in nothing.
C16_ParentByPrefix ==
  Wired =>
    LET result == itemsWithDependencies[1]
    IN  /\ \A s \in Range(selectedItems), u \in Universe :
              /\ items[s].type = "CustomField"
              /\ items[u].type = "CustomObject"
              /\ beforeFirstDot(items[s].name, items[u].name)
              => occurrences(result, u) = 1
        /\ (\A s \in Range(selectedItems) :
               items[s].type = "CustomField" /\ ~hasDot(items[s].name))
             => result = distinctOf(selectedItems)

C16_Witness ==
  /\ Wired
  /\ selectedItems = <<1, 2>>
  /\ 3 \in Universe
  /\ itemsWithDependencies[1] = <<1, 3, 2>>

\* A name that is the object's name, a '.', and anything after it
hasObjectPrefix(name, objectName) ==
  /\ Len(objectName) < Len(name)
  /\ name[Len(objectName) + 1] = "."
  /\ \A i \in 1..Len(objectName) : name[i] = objectName[i]

\* The CustomField and Layout artifacts of the comparison result that belong
\* to a selected CustomObject
partsOfSelectedObjects ==
  {u \in Universe :
     /\ items[u].type \in {"CustomField", "Layout"}
     /\ \E s \in Range(selectedItems) :
          /\ items[s].type = "CustomObject"
          /\ hasObjectPrefix(items[u].name, items[s].name)}

\* C17: a selected CustomObject brings in every CustomField and Layout of the
\* four partitions whose name starts with the object's name and a '.'; when
\* only CustomObjects are selected nothing else is added.
C17_ChildrenByPrefix ==
  Wired =>
    LET result == itemsWithDependencies[1]
    IN  /\ partsOfSelectedObjects \subseteq Range(result)
        /\ (\A s \in Range(selectedItems) : items[s].type = "CustomObject")
             => Range(result) = Range(selectedItems) \cup partsOfSelectedObjects

C17_Witness ==
  /\ Wired
  /\ selectedItems = <<3>>
  /\ itemsWithDependencies[1] = <<3, 1, 4, 2>>

\* The autoWire values the switch of autoWireDependencies has a case for
switchCases == {"lwcFolder", "apexMeta", "objectFields", "fieldParentObject"}

\* A type that has an entry of the table whose autoWire the switch handles
hasAutoWire(type) ==
  \E i \in 1..Len(METADATA_TYPES) :
    METADATA_TYPES[i].type = type /\ METADATA_TYPES[i].autoWire \in switchCases

\* C18: when every selected artifact is of a type without table entry, with
\* autoWire null or with an autoWire the switch has no case for,
\* autoWireDependencies returns the selection itself:
\* every selected artifact once, nothing added.
C18_NoRuleAddsNothing ==
  /\ Wired /\ (\A s \in Range(selectedItems) : ~hasAutoWire(items[s].type))
       => itemsWithDependencies[1] = distinctOf(selectedItems)
  /\ Wired /\ (\E s \in Range(selectedItems) : ~hasAutoWire(items[s].type))
       => \A u \in Range(itemsWithDependencies[1]) \ Range(selectedItems) :
            \E s \in Range(selectedItems) : hasAutoWire(items[s].type)

C18_Witness ==
  /\ Wired
  /\ selectedItems = <<9, 10>>
  /\ {1, 3} \subseteq Universe
  /\ itemsWithDependencies[1] = <<9, 10>>

----------------------------------------------------------------------------
(* Specification of the manifest: any list over a catalogue of items *)

MaxPkgItems == 3

PackageItem(type, name) == NewItem(type, name, name, "d1", undefined)

\* Two distinct objects share type and name.
PackageCatalogue ==
  << PackageItem("ApexClass", <<"F", "o", "o">>),
     PackageItem("ApexClass", <<"F", "o", "o">>),
     PackageItem("ApexClass", <<"B", "a", "r">>),
     PackageItem("CustomObject", <<"F", "o", "o">>),
     PackageItem("CustomObject", <<"O", "b", "j">>) >>

InitManifest ==
  /\ items = [i \in 1..Len(PackageCatalogue) |-> PackageCatalogue[i]]
  /\ packageItems \in SeqsUpTo(1..Len(PackageCatalogue), MaxPkgItems)
  /\ packageXml = undefined
  /\ comparisonResult = undefined
  /\ selectedItems = <<>>
  /\ sourceMetadata = <<>>
  /\ targetMetadata = <<>>
  /\ sourceConfig = SourceTargetConfig("org", Str(<<"dev-org">>), undefined)
  /\ targetConfig = SourceTargetConfig("org", Str(<<"prod-org">>), undefined)
  /\ compareImpl = "none"
  /\ error = undefined
  /\ pendingContent = {}
  /\ retrieveCommands = {}
  /\ isComparing = FALSE
  /\ clicks = [c \in Clicks |-> IdleClick]
  /\ availableOrgs = <<>>
  /\ filter = DefaultFilter
  /\ currentFilter = "all"
  /\ filteredResult = undefined
  /\ selectAll = FALSE
  /\ itemsWithDependencies = undefined
  /\ selectedDiffItem = undefined
  /\ diffViewerContent = undefined
  /\ diffContent = undefined
  /\ sourceDiffLabel = <<"Source Org">>
  /\ targetDiffLabel = <<"Target Org">>

NextManifest == createPackageZip

SpecManifest == InitManifest /\ [][NextManifest]_vars

----------------------------------------------------------------------------
(* Properties of the manifest *)

Generated == packageXml # undefined

Xml == packageXml[1]

\* The type named by the <types> block that line i of a manifest lies in
blockTypeAt(xml, i) ==
  LET after == {j \in i..Len(xml) : xml[j].tag = "name"}
  IN  xml[CHOOSE j \in after : \A k \in after : j <= k].text

\* The lines of a manifest that list name as a member of type
memberLines(xml, type, name) ==
  {i \in 1..Len(xml) : /\ xml[i].tag = "members"
                       /\ xml[i].name = name
                       /\ blockTypeAt(xml, i) = type}

typesListed(xml) == {xml[i].text : i \in {j \in 1..Len(xml) : xml[j].tag = "name"}}

namesListed(xml) == {xml[i].name : i \in {j \in 1..Len(xml) : xml[j].tag = "members"}}

\* What a manifest lists, whatever the order of its lines: how many times each
\* name is a member of each type
listing(xml) ==
  [t \in typesListed(xml) |->
     [n \in namesListed(xml) |-> Cardinality(memberLines(xml, t, n))]]

IndexPermutations(n) == {p \in [1..n -> 1..n] : \A i, j \in 1..n : p[i] = p[j] => i = j}

Permuted(list, p) == [i \in 1..Len(list) |-> list[p[i]]]

\* C7: no name is listed twice as a member of one type.
C7_MemberOnce ==
  Generated =>
    \A t \in typesListed(Xml), n \in namesListed(Xml) :
      Cardinality(memberLines(Xml, t, n)) <= 1

linesTagged(xml, tag) == {i \in 1..Len(xml) : xml[i].tag = tag}

\* The member names a manifest lists under a type, as a bag
membersBag(xml, type) ==
  LET lines == {i \in linesTagged(xml, "members") : blockTypeAt(xml, i) = type}
  IN  [n \in {xml[i].name : i \in lines} |->
         Cardinality({i \in lines : xml[i].name = n})]

\* The names of the items of a type, as a bag
itemNamesBag(h, list, type) ==
  LET idx == {i \in 1..Len(list) : h[list[i]].type = type}
  IN  [n \in {h[list[i]].name : i \in idx} |->
         Cardinality({i \in idx : h[list[i]].name = n})]

\* C21: the manifest has the version line 58.0 exactly once, and for every
\* type of the items exactly one <types> block naming it, whose members are
\* the names of the items of that type and nothing else; it names no other
\* type.
C21_OneBlockPerType ==
  Generated =>
    LET types == {items[id].type : id \in Range(packageItems)}
    IN  /\ Cardinality(linesTagged(Xml, "version")) = 1
        /\ \A i \in linesTagged(Xml, "version") :
             Xml[i].text = "  <version>58.0</version>"
        /\ typesListed(Xml) = types
        /\ Cardinality(linesTagged(Xml, "name")) = Cardinality(types)
        /\ Cardinality(linesTagged(Xml, "open")) = Cardinality(types)
        /\ \A t \in types : membersBag(Xml, t) = itemNamesBag(items, packageItems, t)

C21_Witness ==
  /\ Generated
  /\ Len(packageItems) = 3
  /\ Cardinality(typesListed(Xml)) = 2
  /\ items[packageItems[1]].type # items[packageItems[2]].type
  /\ items[packageItems[1]].type = items[packageItems[3]].type

----------------------------------------------------------------------------
(* generateDiffContent *)

newline == "\n"

\* String.prototype.split('\n')
RECURSIVE split(_)
split(s) ==
  LET breaks == {i \in 1..Len(s) : s[i] = newline}
  IN  IF breaks = {} THEN <<s>>
      ELSE LET first == CHOOSE i \in breaks : \A j \in breaks : i <= j
           IN  <<SubSeq(s, 1, first - 1)>> \o split(SubSeq(s, first + 1, Len(s)))

\* lines[i] || '' with i counted from 1
lineAt(lines, i) == IF i <= Len(lines) THEN lines[i] ELSE <<>>

\* A mutant of maxLines: the loop runs over the source lines only.
maxLinesSourceOnly(sourceLines, targetLines) == Len(sourceLines)

\* Math.max(sourceLines.length, targetLines.length)
maxLines(sourceLines, targetLines) ==
  IF Len(sourceLines) >= Len(targetLines) THEN Len(sourceLines) ELSE Len(targetLines)

\* A mutant of lineType: the comparison of the two lines is lost, the type
\* follows from which of the lines are empty.
lineTypeByEmptiness(sourceLine, targetLine) ==
  IF sourceLine # <<>> /\ targetLine = <<>> THEN "added"
  ELSE IF sourceLine = <<>> /\ targetLine # <<>> THEN "removed"
  ELSE "unchanged"

\* The type of one line in the component
lineType(sourceLine, targetLine) ==
  IF sourceLine # targetLine
  THEN IF sourceLine # <<>> /\ targetLine = <<>> THEN "added"
       ELSE IF sourceLine = <<>> /\ targetLine # <<>> THEN "removed"
       ELSE "changed"
  ELSE "unchanged"

\* The type of one line in the legacy copy
lineTypeLegacy(sourceLine, targetLine) ==
  IF sourceLine # targetLine
  THEN IF sourceLine # <<>> /\ targetLine = <<>> THEN "removed"
       ELSE IF sourceLine = <<>> /\ targetLine # <<>> THEN "added"
       ELSE "changed"
  ELSE "unchanged"

\* config.type === 'org' ? (orgAlias || orgDefault) : (gitBranch || branchDefault)
diffLabel(config, orgDefault, branchDefault) ==
  IF config.type = "org"
  THEN IF OrEmpty(config.orgAlias) # <<>> THEN OrEmpty(config.orgAlias) ELSE orgDefault
  ELSE IF OrEmpty(config.gitBranch) # <<>> THEN OrEmpty(config.gitBranch) ELSE branchDefault

\* generateDiffContent of the component
generateDiffContent ==
  /\ selectedDiffItem # undefined
  /\ diffViewerContent = undefined
  /\ LET item == items[selectedDiffItem[1]]
         sourceLines == split(OrEmpty(item.sourceValue))
         targetLines == split(OrEmpty(item.targetValue))
         n == maxLines(sourceLines, targetLines)
         TypeAt(i) == lineType(lineAt(sourceLines, i), lineAt(targetLines, i))
     IN  diffViewerContent' = Some(
           [sourceLines |-> [i \in 1..n |-> [lineNumber |-> i,
                                             content |-> lineAt(sourceLines, i),
                                             type |-> TypeAt(i)]],
            targetLines |-> [i \in 1..n |-> [lineNumber |-> i,
                                             content |-> lineAt(targetLines, i),
                                             type |-> TypeAt(i)]]])
  /\ sourceDiffLabel' = diffLabel(sourceConfig, <<"Source Org">>, <<"Source Branch">>)
  /\ targetDiffLabel' = diffLabel(targetConfig, <<"Target Org">>, <<"Target Branch">>)
  /\ UNCHANGED <<selectedDiffItem, diffContent>>
  /\ UNCHANGED <<compareVars, configVars, uiVars, clickVars, wireVars, packageVars>>

\* generateDiffContent of the legacy copy
generateDiffContentLegacy ==
  /\ selectedDiffItem # undefined
  /\ diffContent = undefined
  /\ LET item == items[selectedDiffItem[1]]
         sourceLines == split(OrEmpty(item.sourceValue))
         targetLines == split(OrEmpty(item.targetValue))
         n == maxLines(sourceLines, targetLines)
         TypeAt(i) == lineTypeLegacy(lineAt(sourceLines, i), lineAt(targetLines, i))
     IN  diffContent' = Some(
           [diffLines |-> [i \in 1..n |-> [lineNumber |-> i,
                                           sourceContent |-> lineAt(sourceLines, i),
                                           targetContent |-> lineAt(targetLines, i),
                                           type |-> TypeAt(i),
                                           diffLineClass |-> <<"diff-line-", TypeAt(i)>>]]])
  /\ UNCHANGED <<selectedDiffItem, diffViewerContent, sourceDiffLabel, targetDiffLabel>>
  /\ UNCHANGED <<compareVars, configVars, uiVars, clickVars, wireVars, packageVars>>

----------------------------------------------------------------------------
(* Specification of the line diff: any two texts, present or not *)

MaxLen == 3

Chars == {"a", "b", newline}

Texts == {undefined} \cup {Str(s) : s \in SeqsUpTo(Chars, MaxLen)}

DiffConfigs ==
  { SourceTargetConfig("org", Str(<<"dev-org">>), undefined),
    SourceTargetConfig("git", undefined, undefined) }

InitDiff ==
  /\ \E sourceValue \in Texts, targetValue \in Texts :
       items = [id \in {<<"d", 1>>} |->
                  [NewItem("ApexClass", <<"K", "1">>, <<"K", "1">>, "d1", sourceValue)
                     EXCEPT !.targetValue = targetValue, !.status = "changed"]]
  /\ selectedDiffItem \in {undefined, Some(<<"d", 1>>)}
  /\ comparisonResult = Some([added |-> <<>>, removed |-> <<>>,
                              changed |-> <<<<"d", 1>>>>, unchanged |-> <<>>])
  /\ sourceConfig \in DiffConfigs
  /\ targetConfig = SourceTargetConfig("org", Str(<<"prod-org">>), undefined)
  /\ diffViewerContent = undefined
  /\ diffContent = undefined
  /\ sourceDiffLabel = <<"Source Org">>
  /\ targetDiffLabel = <<"Target Org">>
  /\ sourceMetadata = <<>>
  /\ targetMetadata = <<>>
  /\ compareImpl = "none"
  /\ error = undefined
  /\ pendingContent = {}
  /\ retrieveCommands = {}
  /\ isComparing = FALSE
  /\ clicks = [c \in Clicks |-> IdleClick]
  /\ availableOrgs = <<>>
  /\ filter = DefaultFilter
  /\ currentFilter = "all"
  /\ filteredResult = undefined
  /\ selectAll = FALSE
  /\ selectedItems = <<>>
  /\ itemsWithDependencies = undefined
  /\ packageItems = <<>>
  /\ packageXml = undefined

NextDiff ==
  \/ generateDiffContent
  \/ generateDiffContentLegacy

SpecDiff == InitDiff /\ [][NextDiff]_vars

----------------------------------------------------------------------------
(* Properties of the line diff *)

\* The number of lines of a text: one more than its newline characters
lineCount(text) == Cardinality({i \in 1..Len(text) : text[i] = newline}) + 1

Max(a, b) == IF a >= b THEN a ELSE b

DiffItem == items[selectedDiffItem[1]]

expectedEntries ==
  Max(lineCount(OrEmpty(DiffItem.sourceValue)), lineCount(OrEmpty(DiffItem.targetValue)))

\* C9: the diff has max(source lines, target lines) entries, numbered from 1.
C9_DiffLength ==
  /\ diffViewerContent # undefined =>
       /\ Len(diffViewerContent[1].sourceLines) = expectedEntries
       /\ Len(diffViewerContent[1].targetLines) = expectedEntries
       /\ \A i \in 1..expectedEntries :
            /\ diffViewerContent[1].sourceLines[i].lineNumber = i
            /\ diffViewerContent[1].targetLines[i].lineNumber = i
  /\ diffContent # undefined =>
       /\ Len(diffContent[1].diffLines) = expectedEntries
       /\ \A i \in 1..expectedEntries : diffContent[1].diffLines[i].lineNumber = i

C9_Witness ==
  /\ diffViewerContent # undefined
  /\ diffContent # undefined
  /\ lineCount(OrEmpty(DiffItem.sourceValue)) = 1
  /\ lineCount(OrEmpty(DiffItem.targetValue)) = 3
  /\ DiffItem.sourceValue = undefined

\* C10: an entry whose source line is empty and whose target line is not is
\* added; an entry whose source line is not empty and whose target line is
\* empty is removed.
C10_AddedRemoved ==
  /\ diffViewerContent # undefined =>
       \A i \in 1..Len(diffViewerContent[1].sourceLines) :
         LET s == diffViewerContent[1].sourceLines[i]
             t == diffViewerContent[1].targetLines[i]
         IN  /\ (s.content = <<>> /\ t.content # <<>>) => s.type = "added" /\ t.type = "added"
             /\ (s.content # <<>> /\ t.content = <<>>) => s.type = "removed" /\ t.type = "removed"
  /\ diffContent # undefined =>
       \A i \in 1..Len(diffContent[1].diffLines) :
         LET d == diffContent[1].diffLines[i]
         IN  /\ (d.sourceContent = <<>> /\ d.targetContent # <<>>) => d.type = "added"
             /\ (d.sourceContent # <<>> /\ d.targetContent = <<>>) => d.type = "removed"

\* Line i of a text, read off its newline characters: the characters after
\* newline i-1 and before newline i; empty when the text has fewer lines.
nthLine(text, i) ==
  LET breaks == {k \in 1..Len(text) : text[k] = newline}
      Before(k) == Cardinality({b \in breaks : b < k})
      idx == SelectSeq([k \in 1..Len(text) |-> k],
                       LAMBDA k : text[k] # newline /\ Before(k) = i - 1)
  IN  [n \in 1..Len(idx) |-> text[idx[n]]]

\* C11: the type of entry i depends on line i of the source and line i of the
\* target only: unchanged when they are equal, changed when both are non-empty
\* and different.
C11_Positional ==
  LET src(i) == nthLine(OrEmpty(DiffItem.sourceValue), i)
      tgt(i) == nthLine(OrEmpty(DiffItem.targetValue), i)
      Expect(i, type) ==
        /\ (src(i) = tgt(i)) <=> (type = "unchanged")
        /\ (src(i) # <<>> /\ tgt(i) # <<>> /\ src(i) # tgt(i)) <=> (type = "changed")
  IN  /\ diffViewerContent # undefined =>
           \A i \in 1..Len(diffViewerContent[1].sourceLines) :
             /\ diffViewerContent[1].sourceLines[i].content = src(i)
             /\ diffViewerContent[1].targetLines[i].content = tgt(i)
             /\ Expect(i, diffViewerContent[1].sourceLines[i].type)
             /\ Expect(i, diffViewerContent[1].targetLines[i].type)
      /\ diffContent # undefined =>
           \A i \in 1..Len(diffContent[1].diffLines) :
             /\ diffContent[1].diffLines[i].sourceContent = src(i)
             /\ diffContent[1].diffLines[i].targetContent = tgt(i)
             /\ Expect(i, diffContent[1].diffLines[i].type)

\* A line inserted at the top of the target: the entries after it are not
\* re-aligned.
C11_Witness ==
  /\ diffViewerContent # undefined
  /\ DiffItem.sourceValue = Str(<<"a">>)
  /\ DiffItem.targetValue = Str(<<"b", newline, "a">>)
  /\ diffViewerContent[1].sourceLines[1].type = "changed"
  /\ diffViewerContent[1].sourceLines[2].type = "removed"

----------------------------------------------------------------------------
(* Retrieval: sf org list metadata per type, git ls-tree *)

\* METADATA_TYPES.map(t => t.type)
metadataTypes == [i \in 1..Len(METADATA_TYPES) |-> METADATA_TYPES[i].type]

batchSize == 3

\* metadataTypes.slice(i, i + batchSize), i counted from 0
batchAt(i) ==
  SubSeq(metadataTypes, i + 1,
         IF i + batchSize <= Len(metadataTypes) THEN i + batchSize
         ELSE Len(metadataTypes))

\* What executeCommand resolves to for "sf org list metadata": errorCode set
\* (or no stdout, or stdout that does not parse), or the parsed response.result
ListResponse(errorCode, result) == [errorCode |-> errorCode, result |-> result]

RawMetadata(fullName, date) == [fullName |-> fullName, lastModifiedDate |-> date]

ListResponses(type) ==
  IF type \in {"ApexClass", "CustomObject"}
  THEN { ListResponse(1, <<>>), ListResponse(0, <<>>),
         ListResponse(0, <<RawMetadata(<<"F", "o", "o">>, "d1")>>) }
  ELSE { ListResponse(1, <<>>), ListResponse(0, <<>>) }

\* parseMetadataListResponse of the component (and of the legacy copy)
parseMetadataListResponse(metadataList, metadataType) ==
  [n \in 1..Len(metadataList) |->
     NewItem(metadataType, metadataList[n].fullName, metadataList[n].fullName,
             metadataList[n].lastModifiedDate,
             Str(<<"Metadata from ">> \o metadataList[n].fullName
                   \o <<" (", metadataType, ")">>))]

\* parseMetadataListResponse of the service class
parseMetadataListResponseService(result, metadataType) ==
  [n \in 1..Len(result) |->
     [NewItem(metadataType, result[n].fullName,
              <<metadataType, "/">> \o result[n].fullName,
              result[n].lastModifiedDate, Str(<<>>))
        EXCEPT !.targetValue = Str(<<>>)]]

\* The items a resolved list command contributes
listedItems(response, metadataType) ==
  IF response.errorCode # 0 THEN <<>>
  ELSE parseMetadataListResponse(response.result, metadataType)

\* A file path of the git listing is held as its '/'-separated segments: the
\* directories as atoms, the file name as a sequence of characters.
toLowerCaseChar ==
  ("A" :> "a") @@ ("B" :> "b") @@ ("C" :> "c") @@ ("D" :> "d") @@ ("E" :> "e") @@ ("F" :> "f") @@
  ("G" :> "g") @@ ("H" :> "h") @@ ("I" :> "i") @@ ("J" :> "j") @@ ("K" :> "k") @@ ("L" :> "l") @@
  ("M" :> "m") @@ ("N" :> "n") @@ ("O" :> "o") @@ ("P" :> "p") @@ ("Q" :> "q") @@ ("R" :> "r") @@
  ("S" :> "s") @@ ("T" :> "t") @@ ("U" :> "u") @@ ("V" :> "v") @@ ("W" :> "w") @@ ("X" :> "x") @@
  ("Y" :> "y") @@ ("Z" :> "z")

toLowerCase(s) ==
  [i \in 1..Len(s) |-> IF s[i] \in DOMAIN toLowerCaseChar THEN toLowerCaseChar[s[i]]
                       ELSE s[i]]

metadataExtensions ==
  { <<".", "c", "l", "s">>,
    <<".", "t", "r", "i", "g", "g", "e", "r">>,
    <<".", "p", "a", "g", "e">>,
    <<".", "c", "o", "m", "p", "o", "n", "e", "n", "t">>,
    <<".", "o", "b", "j", "e", "c", "t">>,
    <<".", "f", "i", "e", "l", "d">>,
    <<".", "p", "e", "r", "m", "i", "s", "s", "i", "o", "n", "s", "e", "t">>,
    <<".", "p", "r", "o", "f", "i", "l", "e">>,
    <<".", "l", "a", "y", "o", "u", "t">>,
    <<".", "t", "a", "b">>,
    <<".", "a", "p", "p">>,
    <<".", "w", "o", "r", "k", "f", "l", "o", "w">>,
    <<".", "v", "a", "l", "i", "d", "a", "t", "i", "o", "n", "R", "u", "l", "e">>,
    <<".", "s", "h", "a", "r", "i", "n", "g", "R", "u", "l", "e">>,
    <<".", "q", "u", "e", "u", "e">>,
    <<".", "g", "r", "o", "u", "p">>,
    <<".", "r", "o", "l", "e">>,
    <<".", "c", "u", "s", "t", "o", "m", "P", "e", "r", "m", "i", "s", "s", "i", "o", "n">>,
    <<".", "f", "l", "o", "w">>,
    <<".", "p", "r", "o", "c", "e", "s", "s", "B", "u", "i", "l", "d", "e", "r">>,
    <<".", "q", "u", "i", "c", "k", "A", "c", "t", "i", "o", "n">>,
    <<".", "e", "m", "a", "i", "l", "T", "e", "m", "p", "l", "a", "t", "e">>,
    <<".", "l", "e", "t", "t", "e", "r", "h", "e", "a", "d">>,
    <<".", "d", "o", "c", "u", "m", "e", "n", "t">>,
    <<".", "s", "t", "a", "t", "i", "c", "r", "e", "s", "o", "u", "r", "c", "e">>,
    <<".", "a", "u", "r", "a">>,
    <<".", "l", "w", "c">>,
    <<".", "w", "a", "v", "e">>,
    <<".", "d", "a", "s", "h", "b", "o", "a", "r", "d">>,
    <<".", "r", "e", "p", "o", "r", "t">>,
    <<".", "r", "e", "p", "o", "r", "t", "T", "y", "p", "e">> }

fileName(file) == file[Len(file)]

\* lastIndexOf('.') within the file name, 0 when there is none
lastDot(s) ==
  LET dots == {i \in 1..Len(s) : s[i] = "."}
  IN  IF dots = {} THEN 0 ELSE CHOOSE i \in dots : \A j \in dots : j <= i

isSalesforceMetadataFile(file) ==
  LET name == toLowerCase(fileName(file))
      extension == IF lastDot(name) = 0 THEN <<>>
                   ELSE SubSeq(name, lastDot(name), Len(name))
  IN  \/ extension \in metadataExtensions
      \/ \E i \in 2..(Len(file) - 1) : file[i] \in {"force-app", "metadata"}

extractMetadataType(file) == IF Len(file) >= 2 THEN file[1] ELSE "Unknown"

\* \w of the regular expression, on the characters file names are made of
isWordChar(ch) == ch \notin {".", "/", "-", " ", newline}

\* parts[1].replace(/\.\w+$/, '')
extractMetadataName(file) ==
  IF Len(file) >= 2
  THEN LET s == file[2]
           d == lastDot(s)
       IN  IF d > 0 /\ d < Len(s) /\ \A i \in (d + 1)..Len(s) : isWordChar(s[i])
           THEN SubSeq(s, 1, d - 1) ELSE s
  ELSE fileName(file)

\* The path as one string
filePath(file) ==
  IF Len(file) >= 2 THEN <<file[1], "/">> \o file[2] ELSE fileName(file)

GitListings ==
  { <<>>,
    << <<"classes", <<"F", "o", "o", ".", "c", "l", "s">>>> >>,
    << <<"classes", <<"F", "o", "o", ".", "c", "l", "s">>>>,
       << <<"R", "E", "A", "D", "M", "E">> >> >> }

\* The items retrieveGitMetadata builds from the listed files
gitItems(files) ==
  LET kept == SelectSeq(files, isSalesforceMetadataFile)
  IN  [n \in 1..Len(kept) |->
         NewItem(extractMetadataType(kept[n]), extractMetadataName(kept[n]),
                 filePath(kept[n]), "now",
                 Str(<<"Git file: ">> \o filePath(kept[n])))]

----------------------------------------------------------------------------
(* handleCompareClick *)

\* Which branch retrieveSourceMetadataWithProgress / Target takes
retrievalKind(config) ==
  IF config.type = "org" /\ OrEmpty(config.orgAlias) # <<>> THEN "org"
  ELSE IF config.type = "git" /\ OrEmpty(config.gitBranch) # <<>> THEN "git"
  ELSE "none"

\* A mutant of validateConfiguration: the target side is not looked at.
validateConfigurationSourceOnly(sc, tc) ==
  IF sc.type = "org" /\ OrEmpty(sc.orgAlias) = <<>>
  THEN Str("Please select a source org")
  ELSE undefined

\* validateConfiguration: the error it sets, undefined when it returns true
validateConfiguration(sc, tc) ==
  IF sc.type = "org" /\ OrEmpty(sc.orgAlias) = <<>>
  THEN Str("Please select a source org")
  ELSE IF tc.type = "org" /\ OrEmpty(tc.orgAlias) = <<>>
  THEN Str("Please select a target org")
  ELSE undefined

\* A mutant of startBatch: the batch is awaited but no fetch is started.
startBatchWithoutFetch(st, side, i) ==
  [st EXCEPT !.side = side, !.pc = "fetch", !.batch = i, !.results = {}]

\* batch.map(async ...): every fetch of the batch has called executeCommand
startBatch(st, side, i) ==
  [st EXCEPT !.side = side, !.pc = "fetch", !.batch = i, !.results = {},
             !.outstanding = @ \cup {<<side, batchAt(i)[k]>> : k \in 1..Len(batchAt(i))}]

\* The call of a retrieval, up to its first await
enterSide(st, side, config) ==
  IF retrievalKind(config) = "org"
  THEN startBatch([st EXCEPT !.allMetadata = <<>>], side, 0)
  ELSE [st EXCEPT !.side = side, !.pc = "gitWhich"]

\* The retrieval of a side has returned metadata: the source retrieval is
\* followed by the target retrieval, the target retrieval by the comparison
\* (pc "compare", which the invocation passes through without suspending).
afterRetrieval(st, side, metadata, tc) ==
  IF side = "source"
  THEN LET st1 == [st EXCEPT !.sourceMetadata = metadata]
       IN  IF retrievalKind(tc) = "none"
           THEN [st1 EXCEPT !.targetMetadata = <<>>, !.pc = "compare"]
           ELSE enterSide(st1, "target", tc)
  ELSE [st EXCEPT !.targetMetadata = metadata, !.pc = "compare"]

\* A mutant of batchSettled: the batch goes on with the first fetch that
\* resolves (Promise.race for Promise.all).
batchSettledByAny(outstanding, side, batch) == TRUE

\* await Promise.all(batchPromises): no fetch of the batch is outstanding
batchSettled(outstanding, side, batch) ==
  \A k \in 1..Len(batch) : <<side, batch[k]>> \notin outstanding

\* batchResults.forEach(items => allMetadata.push(...items)): in batch order
RECURSIVE batchItems(_, _)
batchItems(results, batch) ==
  IF batch = <<>> THEN <<>>
  ELSE LET hit == {r \in results : r.type = Head(batch)}
       IN  (IF hit = {} THEN <<>> ELSE (CHOOSE r \in hit : TRUE).items)
           \o batchItems(results, Tail(batch))

\* The heap with the objects a parser has just built, and their identities
newIds(c, side, type, parsed) == [n \in 1..Len(parsed) |-> <<c, side, type, n>>]

heapWith(h, ids, parsed) ==
  [id \in DOMAIN h \cup Range(ids) |->
     IF id \in DOMAIN h THEN h[id]
     ELSE parsed[CHOOSE n \in 1..Len(ids) : ids[n] = id]]

\* The invocation c goes on from the locals st over the heap h until its next
\* await: at pc "compare" it runs compareMetadata and populateItemProperties,
\* assigns this.comparisonResult, and leaves through finally.
continueClick(c, st, h, cr, err, comparing) ==
  IF st.pc = "compare"
  THEN /\ comparisonResult' =
            Some(partitionsOf("OrgCompare", h, st.sourceMetadata, st.targetMetadata))
       /\ items' = heapAfterCompare("OrgCompare", h, st.sourceMetadata, st.targetMetadata)
       /\ sourceMetadata' = st.sourceMetadata
       /\ targetMetadata' = st.targetMetadata
       /\ compareImpl' = "OrgCompare"
       /\ LET started == startedRetrievals("OrgCompare", h, st.sourceMetadata,
                                           st.targetMetadata, sourceConfig, targetConfig)
          IN  /\ pendingContent' = pendingContent \cup started
              /\ retrieveCommands' =
                   retrieveCommands \cup
                     {commandOf(h, p, sourceConfig, targetConfig) : p \in started}
       /\ error' = err
       /\ isComparing' = FALSE
       /\ clicks' = [clicks EXCEPT ![c] = [st EXCEPT !.pc = "done", !.compared = TRUE]]
  ELSE /\ comparisonResult' = cr
       /\ items' = h
       /\ error' = err
       /\ isComparing' = comparing
       /\ clicks' = [clicks EXCEPT ![c] = st]
       /\ UNCHANGED <<sourceMetadata, targetMetadata, compareImpl, pendingContent,
                      retrieveCommands>>

\* handleCompareClick from its call to its first await (or its return);
\* the invocations are numbered in the order of their calls
handleCompareClick(c) ==
  /\ clicks[c].pc = "idle"
  /\ \A d \in DOMAIN clicks : d < c => clicks[d].pc # "idle"
  /\ IF validateConfiguration(sourceConfig, targetConfig) # undefined
     THEN /\ error' = validateConfiguration(sourceConfig, targetConfig)
          /\ clicks' = [clicks EXCEPT ![c].pc = "done"]
          /\ UNCHANGED <<items, sourceMetadata, targetMetadata, comparisonResult,
                         compareImpl, pendingContent, retrieveCommands, isComparing>>
     ELSE LET st == IF retrievalKind(sourceConfig) = "none"
                    THEN afterRetrieval(clicks[c], "source", <<>>, targetConfig)
                    ELSE enterSide(clicks[c], "source", sourceConfig)
          IN  continueClick(c, st, items, undefined, undefined, TRUE)
  /\ UNCHANGED <<configVars, uiVars, wireVars, packageVars, diffVars>>

\* executeCommand of one list command resolves; the batch goes on when settled
listCommandResolves(c) ==
  \E f \in clicks[c].outstanding :
    \E response \in ListResponses(f[2]) :
      LET st == clicks[c]
          side == f[1]
          type == f[2]
          parsed == listedItems(response, type)
          ids == newIds(c, side, type, parsed)
          current == /\ st.pc = "fetch"
                     /\ st.side = side
                     /\ type \in Range(batchAt(st.batch))
          st1 == [st EXCEPT !.outstanding = @ \ {f},
                            !.fetched = @ \cup {f},
                            !.results = IF current
                                        THEN @ \cup {[type |-> type, items |-> ids]}
                                        ELSE @]
          st2 == IF current /\ batchSettled(st1.outstanding, side, batchAt(st.batch))
                 THEN [st1 EXCEPT !.allMetadata = @ \o batchItems(st1.results, batchAt(st.batch)),
                                  !.results = {},
                                  !.pc = "delay"]
                 ELSE st1
      IN  continueClick(c, st2, heapWith(items, ids, parsed),
                        comparisonResult, error, isComparing)
  /\ UNCHANGED <<configVars, uiVars, wireVars, packageVars, diffVars>>

\* The 100 ms delay after a batch elapses: next batch, or the retrieval returns
batchDelayElapses(c) ==
  /\ clicks[c].pc = "delay"
  /\ LET st == clicks[c]
         i == st.batch + batchSize
         st1 == IF i < Len(metadataTypes)
                THEN startBatch(st, st.side, i)
                ELSE afterRetrieval(st, st.side, st.allMetadata, targetConfig)
     IN  continueClick(c, st1, items, comparisonResult, error, isComparing)
  /\ UNCHANGED <<configVars, uiVars, wireVars, packageVars, diffVars>>

\* retrieveGitMetadata: 'which git' resolves, the listing command is started
gitWhichResolves(c) ==
  /\ clicks[c].pc = "gitWhich"
  /\ clicks' = [clicks EXCEPT ![c].pc = "gitList"]
  /\ UNCHANGED <<compareVars, isComparing, configVars, uiVars, wireVars, packageVars, diffVars>>

\* retrieveGitMetadata: the listing resolves and the retrieval returns
gitListResolves(c) ==
  /\ clicks[c].pc = "gitList"
  /\ \E files \in GitListings :
       LET st == clicks[c]
           parsed == gitItems(files)
           ids == newIds(c, st.side, "git", parsed)
           st1 == afterRetrieval(st, st.side, ids, targetConfig)
       IN  continueClick(c, st1, heapWith(items, ids, parsed),
                         comparisonResult, error, isComparing)
  /\ UNCHANGED <<configVars, uiVars, wireVars, packageVars, diffVars>>

----------------------------------------------------------------------------
(* Specification of a compare click: any configuration, any responses *)

ClickConfigs ==
  { SourceTargetConfig("org", Str(<<"o", "r", "g">>), undefined),
    SourceTargetConfig("org", undefined, undefined),
    SourceTargetConfig("org", Str(<<>>), undefined),
    SourceTargetConfig("git", undefined, Str(<<"m", "a", "i", "n">>)),
    SourceTargetConfig("git", undefined, undefined) }

InitClick ==
  /\ sourceConfig \in ClickConfigs
  /\ targetConfig \in ClickConfigs
  /\ items = <<>>
  /\ sourceMetadata = <<>>
  /\ targetMetadata = <<>>
  /\ comparisonResult = undefined
  /\ compareImpl = "none"
  /\ error = undefined
  /\ pendingContent = {}
  /\ retrieveCommands = {}
  /\ isComparing = FALSE
  /\ clicks = [c \in Clicks |-> IdleClick]
  /\ availableOrgs = <<>>
  /\ filter = DefaultFilter
  /\ currentFilter = "all"
  /\ filteredResult = undefined
  /\ selectAll = FALSE
  /\ selectedItems = <<>>
  /\ itemsWithDependencies = undefined
  /\ packageItems = <<>>
  /\ packageXml = undefined
  /\ selectedDiffItem = undefined
  /\ diffViewerContent = undefined
  /\ diffContent = undefined
  /\ sourceDiffLabel = <<"Source Org">>
  /\ targetDiffLabel = <<"Target Org">>

NextClick ==
  \E c \in Clicks :
    \/ handleCompareClick(c)
    \/ listCommandResolves(c)
    \/ batchDelayElapses(c)
    \/ gitWhichResolves(c)
    \/ gitListResolves(c)
    \/ retrieveMetadataContentResume

SpecClick == InitClick /\ [][NextClick]_vars

\* Every started command settles and every timer fires: a step that is
\* possible is eventually taken.
\* The configurations in which at most one side is retrieved from an org
InitLive ==
  /\ InitClick
  /\ retrievalKind(sourceConfig) # "org" \/ retrievalKind(targetConfig) # "org"

\* With at most one side retrieved from an org no artifact of the source has
\* the key of an artifact of the target, so no content retrieval is started:
\* the steps are those of the invocations
NextLive ==
  \E c \in Clicks :
    \/ handleCompareClick(c)
    \/ listCommandResolves(c)
    \/ batchDelayElapses(c)
    \/ gitWhichResolves(c)
    \/ gitListResolves(c)

LiveClick == InitLive /\ [][NextLive]_vars /\ WF_vars(NextLive)

----------------------------------------------------------------------------
(* Properties of a compare click *)

\* C13: an invocation has run compareMetadata only after every list command
\* it started has resolved, and after every type of METADATA_TYPES has been
\* fetched for each side retrieved from an org.
C13_CompareAfterRetrieval ==
  \A c \in Clicks :
    clicks[c].compared =>
      /\ clicks[c].outstanding = {}
      /\ \A k \in 1..Len(metadataTypes) :
           /\ retrievalKind(sourceConfig) = "org"
                => <<"source", metadataTypes[k]>> \in clicks[c].fetched
           /\ retrievalKind(targetConfig) = "org"
                => <<"target", metadataTypes[k]>> \in clicks[c].fetched

C13_Witness ==
  \E c \in Clicks :
    /\ clicks[c].compared
    /\ Cardinality(clicks[c].fetched) = 2 * Len(metadataTypes)
    /\ comparisonResult # undefined
    /\ comparisonResult[1].changed # <<>>

\* C14: within one collection built by parseMetadataListResponse over every
\* metadata type, two artifacts of different types or of different names
\* never carry the same key, the key being the fullName that compareMetadata
\* matches on.
C14_KeysUnique ==
  \A list \in {sourceMetadata, targetMetadata} :
    \A i, j \in 1..Len(list) :
      (\/ items[list[i]].type # items[list[j]].type
       \/ items[list[i]].name # items[list[j]].name)
        => items[list[i]].fullName # items[list[j]].fullName

\* A side of type org whose orgAlias is undefined or the empty string
lacksOrgAlias(config) ==
  config.type = "org" /\ (config.orgAlias = undefined \/ config.orgAlias = Str(<<>>))

\* C22: an invocation of handleCompareClick with an org side that has no
\* orgAlias sets error, leaves isComparing false, starts no command and
\* leaves comparisonResult as it was.
C22_InvalidConfiguration ==
  [][ \A c \in DOMAIN clicks :
        /\ clicks[c].pc = "idle"
        /\ clicks'[c].pc # "idle"
        /\ lacksOrgAlias(sourceConfig) \/ lacksOrgAlias(targetConfig)
        => /\ error' # undefined
           /\ ~isComparing'
           /\ comparisonResult' = comparisonResult
           /\ clicks'[c] = [clicks[c] EXCEPT !.pc = "done"]
           /\ retrieveCommands' = retrieveCommands
    ]_vars

C22_Witness ==
  \E c \in DOMAIN clicks :
    /\ clicks[c].pc = "done"
    /\ ~clicks[c].compared
    /\ ~lacksOrgAlias(sourceConfig)
    /\ lacksOrgAlias(targetConfig)
    /\ error = Str("Please select a target org")
    /\ ~isComparing

\* An invocation that has passed validation and has not yet left
\* handleCompareClick
inFlight(c) == clicks[c].pc \notin {"idle", "done"}

----------------------------------------------------------------------------
(* Configuration handlers and canCompare *)

\* The values the type selectors offer
ConfigTypes == {"org", "git"}

\* The values the org selectors hand over: no choice ('') or an alias
OrgChoices == {<<>>, <<"o", "r", "g">>}

\* handleSourceTypeChange of the component: the type is assigned, nothing else
handleSourceTypeChange(value) ==
  /\ sourceConfig' = [sourceConfig EXCEPT !.type = value]
  /\ UNCHANGED <<targetConfig, compareVars, clickVars, uiVars, wireVars, packageVars,
                 diffVars>>

handleTargetTypeChange(value) ==
  /\ targetConfig' = [targetConfig EXCEPT !.type = value]
  /\ UNCHANGED <<sourceConfig, compareVars, clickVars, uiVars, wireVars, packageVars,
                 diffVars>>

\* handleSourceTypeChange of the legacy copy: orgAlias and gitBranch are reset
handleSourceTypeChangeLegacy(value) ==
  /\ sourceConfig' = [sourceConfig EXCEPT !.type = value, !.orgAlias = undefined,
                                         !.gitBranch = undefined]
  /\ UNCHANGED <<targetConfig, compareVars, clickVars, uiVars, wireVars, packageVars,
                 diffVars>>

handleTargetTypeChangeLegacy(value) ==
  /\ targetConfig' = [targetConfig EXCEPT !.type = value, !.orgAlias = undefined,
                                         !.gitBranch = undefined]
  /\ UNCHANGED <<sourceConfig, compareVars, clickVars, uiVars, wireVars, packageVars,
                 diffVars>>

handleSourceOrgChange(value) ==
  /\ sourceConfig' = [sourceConfig EXCEPT !.orgAlias = Str(value)]
  /\ UNCHANGED <<targetConfig, compareVars, clickVars, uiVars, wireVars, packageVars,
                 diffVars>>

handleTargetOrgChange(value) ==
  /\ targetConfig' = [targetConfig EXCEPT !.orgAlias = Str(value)]
  /\ UNCHANGED <<sourceConfig, compareVars, clickVars, uiVars, wireVars, packageVars,
                 diffVars>>

\* The values of the branch selectors
BranchChoices == {<<"m", "a", "i", "n">>}

handleSourceBranchChange(value) ==
  /\ sourceConfig' = [sourceConfig EXCEPT !.gitBranch = Str(value)]
  /\ UNCHANGED <<targetConfig, compareVars, clickVars, uiVars, wireVars, packageVars,
                 diffVars>>

handleTargetBranchChange(value) ==
  /\ targetConfig' = [targetConfig EXCEPT !.gitBranch = Str(value)]
  /\ UNCHANGED <<sourceConfig, compareVars, clickVars, uiVars, wireVars, packageVars,
                 diffVars>>

\* What loadAvailableOrgs can assign: the orgs `sf org list` reports (possibly
\* none), or the two mock orgs
OrgLists == {<<>>, <<"dev-org", "prod-org">>}

\* loadAvailableOrgs, once its commands have settled
loadAvailableOrgs ==
  /\ \E orgs \in OrgLists : availableOrgs' = orgs
  /\ UNCHANGED <<filter, currentFilter, filteredResult, selectAll>>
  /\ UNCHANGED <<compareVars, configVars, clickVars, wireVars, packageVars, diffVars>>

\* The value of the getter canCompare
canCompare ==
  /\ ~isComparing
  /\ validateConfiguration(sourceConfig, targetConfig) = undefined
  /\ Len(availableOrgs) > 0

\* The steps of the invocations of handleCompareClick
\* The component as constructed: both sides of type org, nothing chosen
InitConfig ==
  /\ sourceConfig = SourceTargetConfig("org", undefined, undefined)
  /\ targetConfig = SourceTargetConfig("org", undefined, undefined)
  /\ items = <<>>
  /\ sourceMetadata = <<>>
  /\ targetMetadata = <<>>
  /\ comparisonResult = undefined
  /\ compareImpl = "none"
  /\ error = undefined
  /\ pendingContent = {}
  /\ retrieveCommands = {}
  /\ isComparing = FALSE
  /\ clicks = [c \in Clicks |-> IdleClick]
  /\ availableOrgs = <<>>
  /\ filter = DefaultFilter
  /\ currentFilter = "all"
  /\ filteredResult = undefined
  /\ selectAll = FALSE
  /\ selectedItems = <<>>
  /\ itemsWithDependencies = undefined
  /\ packageItems = <<>>
  /\ packageXml = undefined
  /\ selectedDiffItem = undefined
  /\ diffViewerContent = undefined
  /\ diffContent = undefined
  /\ sourceDiffLabel = <<"Source Org">>
  /\ targetDiffLabel = <<"Target Org">>

NextConfig ==
  \/ \E value \in ConfigTypes :
       \/ handleSourceTypeChange(value)
       \/ handleTargetTypeChange(value)
       \/ handleSourceTypeChangeLegacy(value)
       \/ handleTargetTypeChangeLegacy(value)
  \/ \E value \in OrgChoices :
       \/ handleSourceOrgChange(value)
       \/ handleTargetOrgChange(value)
  \/ \E value \in BranchChoices :
       \/ handleSourceBranchChange(value)
       \/ handleTargetBranchChange(value)
  \/ loadAvailableOrgs
  \/ \E c \in Clicks :
       \/ handleCompareClick(c)
       \/ listCommandResolves(c)
       \/ batchDelayElapses(c)
       \/ gitWhichResolves(c)
       \/ gitListResolves(c)
  \/ retrieveMetadataContentResume

SpecConfig == InitConfig /\ [][NextConfig]_vars

----------------------------------------------------------------------------
(* Properties of the configuration *)

\* C24: canCompare is true exactly when isComparing is false and no side of
\* type org lacks its orgAlias.
C24_CanCompare ==
  canCompare <=>
    (~isComparing /\ ~lacksOrgAlias(sourceConfig) /\ ~lacksOrgAlias(targetConfig))

\* C27: a step that changes the type of a side leaves that side without
\* orgAlias.
C27_AliasReset ==
  [][ /\ sourceConfig'.type # sourceConfig.type => sourceConfig'.orgAlias = undefined
      /\ targetConfig'.type # targetConfig.type => targetConfig'.orgAlias = undefined
    ]_vars

----------------------------------------------------------------------------
(* The filter of the result list                                            *)

\* item.type is a string; its characters, for the types of FilterCatalogue
typeText ==
  ("ApexClass" :> <<"A", "p", "e", "x", "C", "l", "a", "s", "s">>) @@
  ("Flow" :> <<"F", "l", "o", "w">>)

\* String.prototype.includes
includes(s, t) ==
  \E i \in 0..(Len(s) - Len(t)) : SubSeq(s, i + 1, i + Len(t)) = t

\* Array.prototype.filter with the predicate keep over the item ids
RECURSIVE filterIds(_, _)
filterIds(list, keep) ==
  IF list = <<>> THEN <<>>
  ELSE (IF Head(list) \in keep THEN <<Head(list)>> ELSE <<>>) \o filterIds(Tail(list), keep)

matchesSearchTerm(f, item) ==
  LET searchTerm == toLowerCase(f.searchTerm)
  IN  \/ includes(toLowerCase(item.name), searchTerm)
      \/ includes(toLowerCase(item.fullName), searchTerm)
      \/ includes(toLowerCase(typeText[item.type]), searchTerm)

filterItems(f, h, list) ==
  filterIds(list, {id \in Range(list) :
                    /\ ~(Len(f.metadataTypes) > 0 /\ h[id].type \notin Range(f.metadataTypes))
                    /\ h[id].status \in Range(f.status)
                    /\ ~(f.searchTerm # <<>> /\ ~matchesSearchTerm(f, h[id]))})

\* What a getter returned, with the copy of the getter that returned it
Returned(impl, value) == [impl |-> impl, value |-> value]

\* The component's getter: the partition named by currentFilter, or all four
filteredComparisonResult ==
  /\ filteredResult' =
       IF comparisonResult = undefined THEN Some(Returned("OrgCompare", <<>>))
       ELSE LET cr == comparisonResult[1]
            IN  Some(Returned("OrgCompare",
                  CASE currentFilter = "added" -> cr.added
                    [] currentFilter = "removed" -> cr.removed
                    [] currentFilter = "changed" -> cr.changed
                    [] currentFilter = "unchanged" -> cr.unchanged
                    [] OTHER -> cr.added \o cr.removed \o cr.changed \o cr.unchanged))
  /\ UNCHANGED <<compareVars, configVars, clickVars, wireVars, packageVars, diffVars,
                 availableOrgs, filter, currentFilter, selectAll>>

\* The legacy getter: filterItems over each partition
filteredComparisonResultLegacy ==
  /\ filteredResult' =
       IF comparisonResult = undefined THEN Some(Returned("Legacy", undefined))
       ELSE LET cr == comparisonResult[1]
            IN  Some(Returned("Legacy",
                  Some([added |-> filterItems(filter, items, cr.added),
                        removed |-> filterItems(filter, items, cr.removed),
                        changed |-> filterItems(filter, items, cr.changed),
                        unchanged |-> filterItems(filter, items, cr.unchanged)])))
  /\ UNCHANGED <<compareVars, configVars, clickVars, wireVars, packageVars, diffVars,
                 availableOrgs, filter, currentFilter, selectAll>>

handleMetadataTypeFilterChange(selectedOptions) ==
  /\ filter' = [filter EXCEPT !.metadataTypes = selectedOptions]
  /\ UNCHANGED <<compareVars, configVars, clickVars, wireVars, packageVars, diffVars,
                 availableOrgs, currentFilter, filteredResult, selectAll>>

handleStatusFilterChange(selectedOptions) ==
  /\ filter' = [filter EXCEPT !.status = IF Len(selectedOptions) > 0 THEN selectedOptions
                                         ELSE <<"added", "removed", "changed">>]
  /\ UNCHANGED <<compareVars, configVars, clickVars, wireVars, packageVars, diffVars,
                 availableOrgs, currentFilter, filteredResult, selectAll>>

handleSearchTermChange(value) ==
  /\ filter' = [filter EXCEPT !.searchTerm = value]
  /\ UNCHANGED <<compareVars, configVars, clickVars, wireVars, packageVars, diffVars,
                 availableOrgs, currentFilter, filteredResult, selectAll>>

handleFilterAll ==
  /\ currentFilter' = "all"
  /\ UNCHANGED <<compareVars, configVars, clickVars, wireVars, packageVars, diffVars,
                 availableOrgs, filter, filteredResult, selectAll>>

handleFilterAdded ==
  /\ currentFilter' = "added"
  /\ UNCHANGED <<compareVars, configVars, clickVars, wireVars, packageVars, diffVars,
                 availableOrgs, filter, filteredResult, selectAll>>

handleFilterRemoved ==
  /\ currentFilter' = "removed"
  /\ UNCHANGED <<compareVars, configVars, clickVars, wireVars, packageVars, diffVars,
                 availableOrgs, filter, filteredResult, selectAll>>

handleFilterChanged ==
  /\ currentFilter' = "changed"
  /\ UNCHANGED <<compareVars, configVars, clickVars, wireVars, packageVars, diffVars,
                 availableOrgs, filter, filteredResult, selectAll>>

handleFilterUnchanged ==
  /\ currentFilter' = "unchanged"
  /\ UNCHANGED <<compareVars, configVars, clickVars, wireVars, packageVars, diffVars,
                 availableOrgs, filter, filteredResult, selectAll>>

\* The artifacts of a finished comparison the filter is tried on
FilterCatalogue ==
  << [NewItem("ApexClass", <<"A", "b">>, <<"A", "b">>, "d1", undefined) EXCEPT !.status = "added"],
     [NewItem("ApexClass", <<"x">>, <<"a", "B">>, "d1", undefined) EXCEPT !.status = "changed"],
     [NewItem("Flow", <<"b">>, <<"b">>, "d1", undefined) EXCEPT !.status = "removed"],
     [NewItem("Flow", <<"x">>, <<"x">>, "d1", undefined) EXCEPT !.status = "unchanged"] >>

FilterIds == 1..Len(FilterCatalogue)

TypeSelections == {<<>>, <<"ApexClass">>, <<"Flow">>}

StatusSelections == {<<>>, <<"unchanged">>, <<"added", "removed", "changed", "unchanged">>}

SearchTerms == {<<>>, <<"A">>, <<"b">>, <<"f", "L">>}

FilterResultOver(U) ==
  [added |-> sorted({i \in U : FilterCatalogue[i].status = "added"}),
   removed |-> sorted({i \in U : FilterCatalogue[i].status = "removed"}),
   changed |-> sorted({i \in U : FilterCatalogue[i].status = "changed"}),
   unchanged |-> sorted({i \in U : FilterCatalogue[i].status = "unchanged"})]

InitFilter ==
  /\ items = [i \in FilterIds |-> FilterCatalogue[i]]
  /\ \/ comparisonResult = undefined
     \/ \E U \in SUBSET FilterIds :
          /\ Cardinality(U) <= MaxUniverse
          /\ comparisonResult = Some(FilterResultOver(U))
  /\ selectedItems = <<>>
  /\ sourceMetadata = <<>>
  /\ targetMetadata = <<>>
  /\ sourceConfig = SourceTargetConfig("org", Str(<<"dev-org">>), undefined)
  /\ targetConfig = SourceTargetConfig("org", Str(<<"prod-org">>), undefined)
  /\ compareImpl = "none"
  /\ error = undefined
  /\ pendingContent = {}
  /\ retrieveCommands = {}
  /\ isComparing = FALSE
  /\ clicks = [c \in Clicks |-> IdleClick]
  /\ availableOrgs = <<>>
  /\ filter = DefaultFilter
  /\ currentFilter = "all"
  /\ filteredResult = undefined
  /\ selectAll = FALSE
  /\ itemsWithDependencies = undefined
  /\ packageItems = <<>>
  /\ packageXml = undefined
  /\ selectedDiffItem = undefined
  /\ diffViewerContent = undefined
  /\ diffContent = undefined
  /\ sourceDiffLabel = <<"Source Org">>
  /\ targetDiffLabel = <<"Target Org">>

NextFilter ==
  \/ filteredComparisonResult
  \/ filteredComparisonResultLegacy
  \/ \E selectedOptions \in TypeSelections : handleMetadataTypeFilterChange(selectedOptions)
  \/ \E selectedOptions \in StatusSelections : handleStatusFilterChange(selectedOptions)
  \/ \E value \in SearchTerms : handleSearchTermChange(value)
  \/ handleFilterAll
  \/ handleFilterAdded
  \/ handleFilterRemoved
  \/ handleFilterChanged
  \/ handleFilterUnchanged

SpecFilter == InitFilter /\ [][NextFilter]_vars

----------------------------------------------------------------------------
(* Properties of the filter                                                 *)

\* The artifacts a returned value shows
shown(returned) ==
  IF returned.impl = "OrgCompare" THEN Range(returned.value)
  ELSE IF returned.value = undefined THEN {}
  ELSE UNION {Range(returned.value[1][p]) : p \in PartitionNames}

\* The claimed search: the lower-cased name, fullName or type contains the
\* lower-cased term
containsTerm(item, term) ==
  \E text \in {item.name, item.fullName, typeText[item.type]} :
    \E i \in 1..Len(text) : \E j \in (i - 1)..Len(text) :
       toLowerCase(SubSeq(text, i, j)) = toLowerCase(term)

\* C25: a value the getter returns holds, when filter.metadataTypes is not
\* empty, only artifacts of those types, and, when filter.searchTerm is not
\* empty, only artifacts whose name, fullName or type contains the term
\* whatever the case of the letters.
C25_FilterApplied ==
  [][filteredResult' # filteredResult =>
       \A id \in shown(filteredResult'[1]) :
          /\ filter.metadataTypes # <<>> => items[id].type \in Range(filter.metadataTypes)
          /\ filter.searchTerm # <<>> => containsTerm(items[id], filter.searchTerm)
    ]_vars

----------------------------------------------------------------------------
(* Selection of artifacts                                                   *)

\* A variant of setSelected that always selects
setSelectedTrue(h, list, checked) ==
  [id \in DOMAIN h |-> IF id \in Range(list) THEN [h[id] EXCEPT !.selected = TRUE]
                        ELSE h[id]]

\* list.forEach(item => item.selected = checked)
setSelected(h, list, checked) ==
  [id \in DOMAIN h |-> IF id \in Range(list) THEN [h[id] EXCEPT !.selected = checked]
                        ELSE h[id]]

\* The value updateSelectedItems assigns to selectedItems
updateSelectedItems(h, cr) ==
  IF cr = undefined THEN <<>>
  ELSE filterIds(allItems(cr[1]), {id \in Range(allItems(cr[1])) : h[id].selected})

\* The value updateSelectAllState assigns to selectAll
updateSelectAllState(h, cr) ==
  IF cr = undefined THEN FALSE
  ELSE /\ Len(allItems(cr[1])) > 0
       /\ \A id \in Range(allItems(cr[1])) : h[id].selected

\* allItems.find(i => i.fullName === itemName), as a list of at most one
findByFullName(h, list, itemName) ==
  findFirst(SelectSeq(list, LAMBDA id : h[id].fullName = itemName))

handleSelectAll(checked) ==
  /\ selectAll' = checked
  /\ items' = IF comparisonResult = undefined THEN items
              ELSE setSelected(items, allItems(comparisonResult[1]), checked)
  /\ selectedItems' = updateSelectedItems(items', comparisonResult)
  /\ UNCHANGED <<sourceMetadata, targetMetadata, comparisonResult, compareImpl, error,
                 pendingContent, retrieveCommands, itemsWithDependencies>>
  /\ UNCHANGED <<configVars, clickVars, packageVars, diffVars,
                 availableOrgs, filter, currentFilter, filteredResult>>

\* itemName is the data-item attribute: undefined when the element has none
handleItemSelect(itemName, checked) ==
  /\ items' = IF comparisonResult # undefined /\ OrEmpty(itemName) # <<>>
              THEN setSelected(items,
                               findByFullName(items, allItems(comparisonResult[1]),
                                              itemName[1]),
                               checked)
              ELSE items
  /\ selectedItems' = updateSelectedItems(items', comparisonResult)
  /\ selectAll' = updateSelectAllState(items', comparisonResult)
  /\ UNCHANGED <<sourceMetadata, targetMetadata, comparisonResult, compareImpl, error,
                 pendingContent, retrieveCommands, itemsWithDependencies>>
  /\ UNCHANGED <<configVars, clickVars, packageVars, diffVars,
                 availableOrgs, filter, currentFilter, filteredResult>>

\* The artifacts the selection is tried on: two of one key with different
\* content, and one of another key that arrives selected
SelectKinds ==
  { NewItem("ApexClass", <<"K", "1">>, <<"K", "1">>, "d1", Str(<<"x">>)),
    NewItem("ApexClass", <<"K", "1">>, <<"K", "1">>, "d1", Str(<<"y">>)),
    [NewItem("ApexClass", <<"K", "2">>, <<"K", "2">>, "d1", Str(<<"x">>))
       EXCEPT !.selected = TRUE] }

\* The data-item attributes of the checkboxes: none, empty, the keys of
\* SelectKinds, and a key of no artifact
ItemNames == {undefined, Str(<<>>), Str(<<"K", "1">>), Str(<<"K", "2">>), Str(<<"K", "3">>)}

\* Any source collection against a target of one artifact
InitSelect ==
  \E src \in SeqsUpTo(SelectKinds, MaxItems), tgt \in SelectKinds :
    /\ items = [id \in SourceIds(Len(src)) \cup TargetIds(1) |->
                  IF id[1] = "s" THEN src[id[2]] ELSE tgt]
    /\ sourceMetadata = [i \in 1..Len(src) |-> <<"s", i>>]
    /\ targetMetadata = <<<<"t", 1>>>>
    /\ sourceConfig = SourceTargetConfig("org", Str(<<"dev-org">>), undefined)
    /\ targetConfig = SourceTargetConfig("org", Str(<<"prod-org">>), undefined)
    /\ comparisonResult = undefined
    /\ compareImpl = "none"
    /\ error = undefined
    /\ pendingContent = {}
    /\ retrieveCommands = {}
    /\ isComparing = FALSE
    /\ clicks = [c \in Clicks |-> IdleClick]
    /\ availableOrgs = <<>>
    /\ filter = DefaultFilter
    /\ currentFilter = "all"
    /\ filteredResult = undefined
    /\ selectAll = FALSE
    /\ selectedItems = <<>>
    /\ itemsWithDependencies = undefined
    /\ packageItems = <<>>
    /\ packageXml = undefined
    /\ selectedDiffItem = undefined
    /\ diffViewerContent = undefined
    /\ diffContent = undefined
    /\ sourceDiffLabel = <<"Source Org">>
    /\ targetDiffLabel = <<"Target Org">>

NextSelect ==
  \/ compareMetadataOrgCompare
  \/ compareMetadataLegacy
  \/ retrieveMetadataContentResume
  \/ \E checked \in BOOLEAN : handleSelectAll(checked)
  \/ \E itemName \in ItemNames, checked \in BOOLEAN : handleItemSelect(itemName, checked)

SpecSelect == InitSelect /\ [][NextSelect]_vars

----------------------------------------------------------------------------
(* Properties of the selection                                              *)

\* C26: handleSelectAll(checked) leaves selected equal to checked on every
\* artifact of the four partitions, selectAll equal to checked and
\* selectedItems holding exactly the artifacts whose selected is true;
\* handleItemSelect changes selected on no artifact of another key.
C26_SelectAllAndOne ==
  [][ /\ \A checked \in BOOLEAN :
           handleSelectAll(checked) =>
             /\ selectAll' = checked
             /\ \A id \in Universe : items'[id].selected = checked
             /\ Range(selectedItems') = {id \in Universe : items'[id].selected}
             /\ \A id \in Universe : occurrences(selectedItems', id) <= 
                                        Cardinality({p \in PartitionNames :
                                                      id \in Range(comparisonResult[1][p])})
      /\ \A itemName \in ItemNames, checked \in BOOLEAN :
           handleItemSelect(itemName, checked) =>
             \A id \in DOMAIN items :
                items'[id].selected # items[id].selected =>
                  /\ itemName # undefined
                  /\ items[id].fullName = itemName[1]
                  /\ items'[id].selected = checked
    ]_vars

\* Select-all has been taken back on a result of two artifacts, one of which
\* was then selected alone
C26_Witness ==
  /\ Cardinality(Universe) >= 2
  /\ ~selectAll
  /\ Len(selectedItems) = 1
  /\ \E id \in Universe : ~items[id].selected /\ items[id].status # "unchanged"

----------------------------------------------------------------------------
(* Content retrieval after the click                                        *)

\* C29: once every started handleCompareClick has finished, no step other
\* than a new click writes the sourceValue or the targetValue of an artifact.
C29_ValuesFinal ==
  [][ ( /\ clicks' = clicks
        /\ \E c \in DOMAIN clicks : clicks[c].pc = "done" /\ clicks[c].compared
        /\ \A c \in DOMAIN clicks : ~inFlight(c) )
      => \A id \in DOMAIN items :
            /\ items'[id].sourceValue = items[id].sourceValue
            /\ items'[id].targetValue = items[id].targetValue
    ]_vars

----------------------------------------------------------------------------
(* Specification of overlapping clicks: a second handleCompareClick may be  *)
(* called while the first is suspended                                      *)

Invocations == 1..(MaxClicks + 1)

OverlapConfigs ==
  { SourceTargetConfig("org", Str(<<"o", "r", "g">>), undefined),
    SourceTargetConfig("git", undefined, Str(<<"m", "a", "i", "n">>)) }

InitOverlap ==
  /\ sourceConfig \in OverlapConfigs
  /\ targetConfig \in OverlapConfigs
  /\ items = <<>>
  /\ sourceMetadata = <<>>
  /\ targetMetadata = <<>>
  /\ comparisonResult = undefined
  /\ compareImpl = "none"
  /\ error = undefined
  /\ pendingContent = {}
  /\ retrieveCommands = {}
  /\ isComparing = FALSE
  /\ clicks = [c \in Invocations |-> IdleClick]
  /\ availableOrgs = <<>>
  /\ filter = DefaultFilter
  /\ currentFilter = "all"
  /\ filteredResult = undefined
  /\ selectAll = FALSE
  /\ selectedItems = <<>>
  /\ itemsWithDependencies = undefined
  /\ packageItems = <<>>
  /\ packageXml = undefined
  /\ selectedDiffItem = undefined
  /\ diffViewerContent = undefined
  /\ diffContent = undefined
  /\ sourceDiffLabel = <<"Source Org">>
  /\ targetDiffLabel = <<"Target Org">>

NextOverlap ==
  \/ \E c \in Invocations :
       \/ handleCompareClick(c)
       \/ listCommandResolves(c)
       \/ batchDelayElapses(c)
       \/ gitWhichResolves(c)
       \/ gitListResolves(c)
  \/ retrieveMetadataContentResume

SpecOverlap == InitOverlap /\ [][NextOverlap]_vars

\* The invocation whose call came last
lastStarted == CHOOSE c \in DOMAIN clicks :
                 /\ clicks[c].pc # "idle"
                 /\ \A d \in DOMAIN clicks : clicks[d].pc # "idle" => d <= c

\* C28: isComparing is true while an invocation of handleCompareClick is in
\* flight, and once every invocation has finished the artifacts of
\* comparisonResult are those the invocation called last has retrieved.
C28_LastStartedWins ==
  /\ (\E c \in DOMAIN clicks : inFlight(c)) => isComparing
  /\ (\A c \in DOMAIN clicks : clicks[c].pc = "done" /\ clicks[c].compared)
       => \A id \in Universe : id[1] = lastStarted

----------------------------------------------------------------------------
(* Specification of a session: comparisons of two git branches, selection   *)
(* and package creation in any order                                        *)

\* The data-item attributes of the checkboxes: none, or the fullName of a
\* listed file
SessionItemNames ==
  {undefined} \cup
    UNION {{Str(filePath(files[n])) : n \in 1..Len(files)} : files \in GitListings}

InitSession ==
  /\ sourceConfig = SourceTargetConfig("git", undefined, Str(<<"m", "a", "i", "n">>))
  /\ targetConfig = SourceTargetConfig("git", undefined, Str(<<"d", "e", "v">>))
  /\ items = <<>>
  /\ sourceMetadata = <<>>
  /\ targetMetadata = <<>>
  /\ comparisonResult = undefined
  /\ compareImpl = "none"
  /\ error = undefined
  /\ pendingContent = {}
  /\ retrieveCommands = {}
  /\ isComparing = FALSE
  /\ clicks = [c \in Invocations |-> IdleClick]
  /\ availableOrgs = <<>>
  /\ filter = DefaultFilter
  /\ currentFilter = "all"
  /\ filteredResult = undefined
  /\ selectAll = FALSE
  /\ selectedItems = <<>>
  /\ itemsWithDependencies = undefined
  /\ packageItems = <<>>
  /\ packageXml = undefined
  /\ selectedDiffItem = undefined
  /\ diffViewerContent = undefined
  /\ diffContent = undefined
  /\ sourceDiffLabel = <<"Source Org">>
  /\ targetDiffLabel = <<"Target Org">>

NextSession ==
  \/ \E c \in Invocations :
       \/ handleCompareClick(c)
       \/ gitWhichResolves(c)
       \/ gitListResolves(c)
  \/ \E checked \in BOOLEAN : handleSelectAll(checked)
  \/ \E itemName \in SessionItemNames, checked \in BOOLEAN : handleItemSelect(itemName, checked)
  \/ handleCreatePackage

SpecSession == InitSession /\ [][NextSession]_vars

\* C30: while a comparison result is shown, every artifact of selectedItems
\* is an artifact of that result.
C30_SelectedInResult ==
  comparisonResult # undefined => Range(selectedItems) \subseteq Universe
====
